---- MODULE Spec2Model ----
(***************************************************************************)
(* A model of the DoucyA ledger node: the block store and its state        *)
(* transitions (blockchain.js), the gossip block handler and the peer sync *)
(* (p2p-node.js), and the request/response protocol (protocol.js).         *)
(*                                                                         *)
(* Hashes are modelled as the tuple of the hashed fields (sha256 taken as  *)
(* injective); a signature is the pair <<signer, signed hash>>.            *)
(***************************************************************************)
EXTENDS Integers, Sequences, FiniteSets, TLC

----------------------------------------------------------------------------
(* Bounds of the model *)

MaxHeight == 2        \* no block above this height is built or delivered
MaxPeerHeight == 2    \* the peer's chain stops growing at this height
MaxApplied == 2       \* saveBlock runs at most this many times on the node
MaxPending == 2       \* the pending pool holds at most this many transactions
MaxStake == 100       \* no validator announcement raises a stake above this

----------------------------------------------------------------------------
(* Program constants *)

InitialSupply == 15000
ValidatorMinDeposit == 50

\* config.messaging.  The three amounts are 0.75, 0.25 and 0.75 DOU; they are
\* written in hundredths of a DOU.
SendReward == 75
ReceiveReward == 25
NonWhitelistedFee == 75
MaxMessagesPerHour == 200
MaxMessagesToAddressPerHour == 30

----------------------------------------------------------------------------
(* Addresses and transactions *)

InitialAddress == "X"            \* 'Doue8eylmv193cyA'
GenesisValidator == "G"          \* 'DouthefirstcyA'
LocalValidator == "V"            \* the validator address of this node's wallet
RemoteValidator == "W"           \* a validator of the peer
NoAddress == "null"

Addresses == {"X", "Y", "V", "W"}

\* Addresses whose private key the wallet of this node holds.
WalletAddresses == {"X", "V"}

\* Addresses whose public key getPublicKeyForAddress can find.
KnownPubkeys == {"V", "W"}

NoSignature == <<>>

\* A field that has not been assigned yet (undefined), and one that holds v.
Undefined == << >>
Defined(v) == <<v>>

\* The data argument of a transaction: a list of <<key, value>> pairs; {} is
\* the empty list.
EmptyData == << >>

\* The hash of calculateHash's txData: JSON.stringify leaves out the keys
\* whose value is undefined, so the text differs from one where they are 0.
TxHash(type, from, to, amount, fee, data, timestamp, senderReward, receiverReward) ==
    <<type, from, to, amount, fee, data, timestamp, senderReward, receiverReward>>

\* Transaction.calculateHash on a constructed transaction.
CalculateTxHash(tx) ==
    TxHash(tx.type, tx.from, tx.to, tx.amount, tx.fee, tx.data, tx.timestamp,
           Defined(tx.senderReward), Defined(tx.receiverReward))

\* Transaction constructor: this.hash = this.calculateHash() runs while
\* senderReward and receiverReward are still unassigned; they are set to
\* data.senderReward || 0 and data.receiverReward || 0 afterwards (no data of
\* the model has these keys).  timestamp is Date.now().
TransactionWith(type, from, to, amount, fee, data, timestamp) ==
    [type |-> type, from |-> from, to |-> to, amount |-> amount, fee |-> fee,
     data |-> data, timestamp |-> timestamp,
     hash |-> TxHash(type, from, to, amount, fee, data, timestamp, Undefined, Undefined),
     signature |-> NoSignature,
     senderReward |-> 0, receiverReward |-> 0]

\* The constructor called without its data argument (data = {}).
Transaction(type, from, to, amount, fee, timestamp) ==
    TransactionWith(type, from, to, amount, fee, EmptyData, timestamp)

\* Transaction.verifyHash
VerifyHash(tx) == tx.hash = CalculateTxHash(tx)

\* tx.hash = tx.calculateHash(), as processValidatorRewards does; also the
\* hash of a transaction whose sender hashed it with all fields assigned.
Rehash(tx) == [tx EXCEPT !.hash = CalculateTxHash(tx)]

\* Transaction.sign with the signCallback of `signer`.
SignTransaction(tx, signer) == [tx EXCEPT !.signature = <<signer, tx.hash>>]

\* Transaction.verifySignature with a callback that checks against the key of
\* tx.from.
VerifyTxSignature(tx) ==
    /\ tx.signature # NoSignature
    /\ tx.from # NoAddress
    /\ tx.signature = <<tx.from, tx.hash>>

\* The factories.
CreateTransfer(from, to, amount, fee, timestamp) ==
    Transaction("TRANSFER", from, to, amount, fee, timestamp)
CreateValidatorRegister(from, amount, fee, timestamp) ==
    Transaction("VALIDATOR_REGISTER", from, NoAddress, amount, fee, timestamp)
CreateValidatorWithdraw(from, fee, timestamp) ==
    Transaction("VALIDATOR_WITHDRAW", from, from, 0, fee, timestamp)
CreateWhitelist(from, to, action, timestamp) ==
    TransactionWith("WHITELIST", from, to, 0, 0, << <<"action", action>> >>, timestamp)
\* createMessage: the fee is 0 for a whitelisted sender, nonWhitelistedFee
\* otherwise; the rewards it passes as a seventh argument are ignored by the
\* constructor.
CreateMessage(from, to, message, isWhitelisted, timestamp) ==
    TransactionWith("MESSAGE", from, to, 0,
        IF isWhitelisted THEN 0 ELSE NonWhitelistedFee,
        << <<"message", message>>,
           <<"isWhitelisted", IF isWhitelisted THEN "true" ELSE "false">> >>,
        timestamp)

\* Transactions fresh from the constructor or a factory, as the local API
\* methods submit them.
FactoryTxs ==
    {CreateTransfer("X", "Y", 200, 1, 1),
     CreateValidatorRegister("X", 60, 0, 1),
     CreateValidatorWithdraw("V", 0, 1),
     CreateWhitelist("X", "Y", "add", 1),
     CreateMessage("X", "Y", "hello", TRUE, 1),
     Transaction("MINT", NoAddress, "V", 100, 0, 1)}

NoTx == Transaction("NONE", NoAddress, NoAddress, 0, 0, 0)

\* Transactions as a peer that hashes all fields sends them over gossip or
\* puts them in its blocks; none is signed.
TxTransfer == Rehash(Transaction("TRANSFER", "X", "Y", 200, 1, 1))
TxRegister == Rehash(Transaction("VALIDATOR_REGISTER", "V", NoAddress, 60, 0, 1))
TxWithdraw == Rehash(Transaction("VALIDATOR_WITHDRAW", "Y", NoAddress, 0, 0, 1))
TxMint     == Rehash(Transaction("MINT", NoAddress, "V", 100, 0, 1))

\* Transactions a caller submits to the pool.
SubmittedTxs == {TxTransfer}

\* Transaction lists of the blocks a remote validator builds on this node's head.
RemoteTxLists == {<<TxRegister>>}

\* Transaction lists of the blocks the peer builds on its own chain; the
\* second one cannot be applied in full (its sender is no validator).
PeerTxLists == {<<TxRegister>>, <<TxMint, TxWithdraw>>}

----------------------------------------------------------------------------
(* Blocks *)

ZeroHash == <<"0">>

\* Block.calculateHash: over height, previousHash, timestamp, transactions, validator.
CalculateHash(height, previousHash, timestamp, transactions, validator) ==
    <<height, previousHash, timestamp, transactions, validator>>

\* Block constructor: the hash is computed, the signature is null.
Block(height, previousHash, transactions, validator, timestamp) ==
    [height |-> height, previousHash |-> previousHash,
     transactions |-> transactions, validator |-> validator,
     timestamp |-> timestamp,
     hash |-> CalculateHash(height, previousHash, timestamp, transactions, validator),
     signature |-> NoSignature]

\* Address.sign through the signCallback of the signer.
AddressSign(data, signer) == <<signer, data>>

\* Block.sign
SignBlock(block, signer) ==
    [block EXCEPT !.signature = AddressSign(block.hash, signer)]

\* Address.verifySignature against the public key of `address`.
AddressVerifySignature(hash, signature, address) ==
    signature = <<address, hash>>

\* Block.verifySignature with the callback of handleBlockMessage: false without
\* a signature or without a public key for block.validator.
VerifySignature(block) ==
    /\ block.signature # NoSignature
    /\ block.validator \in KnownPubkeys
    /\ AddressVerifySignature(block.hash, block.signature, block.validator)

\* createGenesisBlock: the hash is derived from the creation time alone.
GenesisBlock(timestamp) ==
    [height |-> 0, previousHash |-> ZeroHash,
     transactions |-> <<Transaction("MINT", NoAddress, InitialAddress, InitialSupply, 0, timestamp)>>,
     validator |-> GenesisValidator,
     timestamp |-> timestamp,
     hash |-> <<"GENESIS_BLOCK", timestamp>>,
     signature |-> NoSignature]

\* Date.now() at the creation of a genesis block: this node's, and the peer's.
GenesisTimes == {1, 2}

\* Date.now() when a block is built.
BlockTimes == {3}

----------------------------------------------------------------------------
(* Maps (JavaScript Map / object): functions over the set of their keys *)

EmptyMap == [x \in {} |-> 0]

MapHas(m, k) == k \in DOMAIN m

MapSet(m, k, v) == [x \in (DOMAIN m) \cup {k} |-> IF x = k THEN v ELSE m[x]]

MapDelete(m, k) == [x \in (DOMAIN m) \ {k} |-> m[x]]

\* this.validators.get(address) || 0
StakeOrZero(m, k) == IF MapHas(m, k) THEN m[k] ELSE 0

----------------------------------------------------------------------------
(* The state transition of one transaction.  A ledger state is a record    *)
(*   bal   : BALANCE_<address>                                             *)
(*   vals  : Blockchain.validators                                         *)
(*   txs   : the hashes stored under TX_<hash>                             *)
(*   ok    : FALSE once a step has thrown                                  *)

\* processTransferTransaction: both balances are read before either is written.
ProcessTransfer(tx, st) ==
    LET senderBalance == st.bal[tx.from]
        recipientBalance == st.bal[tx.to]
        b1 == [st.bal EXCEPT ![tx.from] = senderBalance - tx.amount - tx.fee]
        b2 == [b1 EXCEPT ![tx.to] = recipientBalance + tx.amount]
    IN  [st EXCEPT !.bal = b2]

\* processMintTransaction / processRewardTransaction
ProcessMint(tx, st) ==
    [st EXCEPT !.bal[tx.to] = st.bal[tx.to] + tx.amount]

\* processValidatorRegistration
ProcessValidatorRegistration(tx, st) ==
    [st EXCEPT !.bal[tx.from] = st.bal[tx.from] - tx.amount - tx.fee,
               !.vals = MapSet(st.vals, tx.from, StakeOrZero(st.vals, tx.from) + tx.amount)]

\* processValidatorWithdrawal: throws 'Not a validator' for an unknown sender.
ProcessValidatorWithdrawal(tx, st) ==
    IF ~MapHas(st.vals, tx.from)
    THEN [st EXCEPT !.ok = FALSE]
    ELSE [st EXCEPT !.bal[tx.from] = st.bal[tx.from] + st.vals[tx.from] - tx.fee,
                    !.vals = MapDelete(st.vals, tx.from)]

\* processMessageTransaction: the fee is taken from the sender, else the
\* sender's reward is credited; the receiver's reward is credited.
ProcessMessage(tx, st) ==
    LET b1 == IF tx.fee > 0
              THEN [st.bal EXCEPT ![tx.from] = st.bal[tx.from] - tx.fee]
              ELSE IF tx.senderReward > 0
              THEN [st.bal EXCEPT ![tx.from] = st.bal[tx.from] + tx.senderReward]
              ELSE st.bal
        b2 == IF tx.receiverReward > 0
              THEN [b1 EXCEPT ![tx.to] = b1[tx.to] + tx.receiverReward]
              ELSE b1
    IN  [st EXCEPT !.bal = b2]

\* processTransaction: stores the transaction, then switches on its type.
ProcessTransaction(tx, st) ==
    LET stored == [st EXCEPT !.txs = st.txs \cup {tx.hash}]
    IN  CASE tx.type = "TRANSFER" -> ProcessTransfer(tx, stored)
          [] tx.type \in {"MINT", "REWARD"} -> ProcessMint(tx, stored)
          [] tx.type = "VALIDATOR_REGISTER" -> ProcessValidatorRegistration(tx, stored)
          [] tx.type = "VALIDATOR_WITHDRAW" -> ProcessValidatorWithdrawal(tx, stored)
          [] tx.type = "MESSAGE" -> ProcessMessage(tx, stored)
          [] OTHER -> stored

\* The loop of saveBlock over block.transactions: it stops at the first throw
\* and keeps what the earlier transactions wrote.
RECURSIVE ProcessTransactions(_, _)
ProcessTransactions(txs, st) ==
    IF txs = << >> \/ ~st.ok
    THEN st
    ELSE ProcessTransactions(Tail(txs), ProcessTransaction(Head(txs), st))

\* The genesis branch of saveBlock: a MINT sets the balance of its recipient.
RECURSIVE ProcessGenesisTransactions(_, _)
ProcessGenesisTransactions(txs, st) ==
    IF txs = << >>
    THEN st
    ELSE LET tx == Head(txs)
             next == IF tx.type = "MINT" /\ tx.to # NoAddress
                     THEN [st EXCEPT !.bal[tx.to] = tx.amount]
                     ELSE st
         IN  ProcessGenesisTransactions(Tail(txs), next)

\* Blockchain.saveBlock on a node state
\*   byHeight : BLOCK_HEIGHT_<n> -> the block stored under that hash
\*   latest   : LATEST_BLOCK
\*   height   : this.currentHeight
\*   json     : whether its toJSON calls return
\* Its first statement is JSON.stringify(block.toJSON()).  Block.toJSON
\* computes its size field as JSON.stringify(this).length, and JSON.stringify
\* calls this.toJSON() again: with block.js as it stands the call ends in a
\* RangeError, which saveBlock rethrows before any put (json = FALSE).  With
\* json = TRUE the model covers the paths behind these calls: the four puts
\* come first; currentHeight is set only if no transaction threw.
SaveBlock(block, n) ==
    IF ~n.json
    THEN [n EXCEPT !.ok = FALSE]
    ELSE
    LET put == [n EXCEPT !.byHeight = MapSet(n.byHeight, block.height, block),
                         !.latest = block]
        st0 == [bal |-> n.bal, vals |-> n.vals, txs |-> n.txs, ok |-> TRUE]
        st1 == IF block.height > 0
               THEN ProcessTransactions(block.transactions, st0)
               ELSE ProcessGenesisTransactions(block.transactions, st0)
    IN  [put EXCEPT !.bal = st1.bal, !.vals = st1.vals, !.txs = st1.txs,
                    !.height = IF st1.ok THEN block.height ELSE n.height,
                    !.ok = st1.ok]

\* Amounts are whole DOU; a minimum deposit is kept in hundredths of a DOU,
\* which holds its 10% raises exactly.
Hundredths(amount) == amount * 100

\* isTransactionValid; minDeposit is this.validatorMinDeposit.
IsTransactionValid(tx, bal, vals, minDeposit) ==
    IF ~VerifyHash(tx) THEN FALSE
    ELSE CASE tx.type \in {"MINT", "REWARD"} -> TRUE
           [] tx.type = "TRANSFER" -> bal[tx.from] >= tx.amount + tx.fee
           [] tx.type = "VALIDATOR_REGISTER" ->
                 bal[tx.from] >= tx.amount + tx.fee /\ Hundredths(tx.amount) >= minDeposit
           [] tx.type = "VALIDATOR_WITHDRAW" -> MapHas(vals, tx.from)
           [] tx.type = "MESSAGE" -> IF tx.fee > 0 THEN bal[tx.from] >= tx.fee ELSE TRUE
           [] tx.type = "WHITELIST" -> TRUE
           [] OTHER -> FALSE

\* The filter loop of createBlock over the pending pool.
RECURSIVE ValidTransactions(_, _, _, _)
ValidTransactions(pool, bal, vals, minDeposit) ==
    IF pool = << >> THEN << >>
    ELSE LET rest == ValidTransactions(Tail(pool), bal, vals, minDeposit)
         IN  IF IsTransactionValid(Head(pool), bal, vals, minDeposit)
             THEN <<Head(pool)>> \o rest
             ELSE rest

\* The pool entries that pass the filter loop.  An entry of the pool is an
\* object; while a pass is suspended the pool only grows at its end, so the
\* position of an entry identifies the object.
ValidIndices(pool, bal, vals, minDeposit) ==
    {i \in 1..Len(pool) : IsTransactionValid(pool[i], bal, vals, minDeposit)}

RECURSIVE RemoveIncludedFrom(_, _, _)
RemoveIncludedFrom(pool, included, i) ==
    IF i > Len(pool) THEN << >>
    ELSE (IF i \in included THEN << >> ELSE <<pool[i]>>)
         \o RemoveIncludedFrom(pool, included, i + 1)

\* A filter that compares the transactions by value: it also removes the
\* entries that are equal to an included one.
RemoveIncluded_ByValue(pool, included) ==
    SelectSeq(pool, LAMBDA tx : \A i \in included : i > Len(pool) \/ pool[i] # tx)

\* this.pendingTransactions.filter(tx => !validTransactions.includes(tx)):
\* includes compares object references, so exactly the entries that were
\* selected are removed.
RemoveIncluded(pool, included) == RemoveIncludedFrom(pool, included, 1)

\* The sum of processValidatorRewards over the fees of the block.
RECURSIVE TotalReward(_)
TotalReward(txs) ==
    IF txs = << >> THEN 0 ELSE Head(txs).fee + TotalReward(Tail(txs))

----------------------------------------------------------------------------
(* Sync stepping (syncWithPeer) *)

\* for (let i = ourHeight + 1; ...
SyncFirstHeight(ourHeight) == ourHeight + 1

\* A loop that steps over a height.
SyncNextHeight_Skip(i) == i + 2

\* ...; i++)
SyncNextHeight(i) == i + 1

\* A loop that stops one block short of the peer's height.
SyncLoopContinues_OffByOne(i, peerHeight) == i < peerHeight

\* ...; i <= peerHeight; ...
SyncLoopContinues(i, peerHeight) == i <= peerHeight

\* if (peerHeight > ourHeight)
SyncNeeded(peerHeight, ourHeight) == peerHeight > ourHeight

\* The validator map of the peer, in the order its responder lists it.
PeerValidators == << <<"W", 90>>, <<"V", 60>> >>

----------------------------------------------------------------------------
(* State *)

VARIABLES
    dbByHeight,           \* BLOCK_HEIGHT_<n> -> BLOCK_<hash>: height -> block
    latestBlock,          \* LATEST_BLOCK
    balances,             \* BALANCE_<address>
    validators,           \* Blockchain.validators
    txStore,              \* the hashes under TX_<hash>
    currentHeight,        \* Blockchain.currentHeight
    pendingTransactions,  \* Blockchain.pendingTransactions
    vmValidators,         \* ValidatorManager.validators
    peers,                \* P2PNode.peers
    cbPc, cbBlock,        \* createBlock: position, the block it built
    cbValid,              \* createBlock: the pool entries in validTransactions
    cbCall,               \* createBlock: the producer address and outcome of the last
                          \* call that returned early or is building
    gPc, gBlock,          \* handleBlockMessage: position, the block it holds
    syPc,                 \* syncWithPeer: position
    syPeerHeight,         \* its peerHeight
    syOurHeight,          \* its ourHeight
    syI,                  \* its loop variable i
    syMark,               \* number of saveBlock calls when ourHeight was read
    syEntries,            \* its validatorsResponse.validators, as a list of entries
    peerChain,            \* the peer's chain: peerChain[h + 1] is its block h
    applyLog,             \* history: every saveBlock call on this node
    syncLog,              \* history: the requests and saves of the running sync
    apiCall               \* history: the last call of addTransaction or sendTokens

ledgerVars == <<dbByHeight, latestBlock, balances, validators, txStore, currentHeight>>
cbVars == <<cbPc, cbBlock, cbValid, cbCall>>
gossipVars == <<gPc, gBlock>>
syncVars == <<syPc, syPeerHeight, syOurHeight, syI, syMark, syEntries, syncLog>>

VARIABLES
    toJSONReturns,        \* whether the toJSON calls of saveBlock return (see SaveBlock)
    validatorMinDeposit,  \* Blockchain.validatorMinDeposit, in hundredths
    minimumDeposit,       \* ValidatorManager.minimumDeposit, in hundredths
    lastYearlyUpdate,     \* ValidatorManager.lastYearlyUpdate, in years
    now                   \* Date.now(), in years

depositVars == <<validatorMinDeposit, minimumDeposit, lastYearlyUpdate, now>>

VARIABLES
    hourly,               \* Node.messageCounts.hourly: sender -> {total, perAddress}
    smCalls,              \* the sendMessage calls in flight or returned, by caller
    resets                \* history: how many times resetMessageCounts has run

msgVars == <<hourly, smCalls, resets>>

VARIABLES
    running,              \* whether a node process has completed initialize()
    latestRecord,         \* what db.get('LATEST_BLOCK') finds (see Initialize)
    initResult,           \* how the last initialize() call ended
    starts                \* history: how many times initialize() has been called

storeVars == <<running, latestRecord, initResult, starts>>

VARIABLES
    cTx, cTxPc,           \* a transaction and how far its round trip has come
    cTxJson, cTxBack,     \* its toJSON() object, and the fromJSON of that
    cBlock, cBlockPc,     \* the same for a block
    cBlockJson, cBlockBack,
    cBlockHash0           \* history: the hash of the block before sign()

codecVars == <<cTx, cTxPc, cTxJson, cTxBack, cBlock, cBlockPc, cBlockJson, cBlockBack,
               cBlockHash0>>

VARIABLES
    tokCalls,             \* the handleInitialTokens calls in flight or answered
    tokGranted            \* history: the requests answered with success

tokVars == <<tokCalls, tokGranted>>

VARIABLES
    tpPc, tpBlock,        \* the createBlock passes the block timer has started and
    tpValid               \* that have not returned: position, block, selected entries

passVars == <<tpPc, tpBlock, tpValid>>

VARIABLES
    ivTx, ivOut           \* a call of isTransactionValid: its argument, its result

ivVars == <<ivTx, ivOut>>

VARIABLES
    snEntries,            \* ValidatorManager.validators as selectNextValidator walks
                          \* it: the entries in insertion order
    snRandom,             \* the value Math.random() returned, as a numerator over Grid
    snOut                 \* what the call returned

snVars == <<snEntries, snRandom, snOut>>

VARIABLES
    mrCall                \* the last monthly reward pass: which one ran, the pool
                          \* before it, the array it returned

VARIABLES
    gLast                 \* history: the last block message handled, and the
                          \* height of the head it was compared with

lateVars == <<passVars, ivVars, snVars, mrCall, gLast>>

moreVars == <<msgVars, storeVars, codecVars, tokVars, lateVars>>

\* moreVars without one of its parts.
notMsg == <<storeVars, codecVars, tokVars, lateVars>>
notStore == <<msgVars, codecVars, tokVars, lateVars>>
notCodec == <<msgVars, storeVars, tokVars, lateVars>>
notTok == <<msgVars, storeVars, codecVars, lateVars>>
notLate == <<msgVars, storeVars, codecVars, tokVars>>

extVars == <<toJSONReturns, depositVars, moreVars>>

\* nodeVars without extVars.
nodeVarsButExt == <<ledgerVars, pendingTransactions, vmValidators, peers, cbVars,
                    gossipVars, syncVars, peerChain, applyLog, apiCall>>

nodeVars == <<nodeVarsButExt, extVars>>

VARIABLES
    pipeDefined,          \* whether the identifier `pipe` is bound when protocol.js runs
    nextId,               \* number of request ids drawn so far
    pendingRequests,      \* Protocol.pendingRequests: the ids that have an entry
    timers,               \* the ids whose setTimeout is armed
    timedOut,             \* history: the ids whose timer has fired
    promise,              \* id -> state of the promise built by request()
    rqPc, rqId, rqKind,   \* request(): position, its id, its protocol
    rqResult,             \* how the call ended
    stream,               \* the stream of the running request, as the responder sees it
    initialCount          \* INITIAL_TOKENS_COUNT of the responder

protoVars == <<pipeDefined, nextId, pendingRequests, timers, timedOut, promise,
               rqPc, rqId, rqKind, rqResult, stream, initialCount>>

NoBlock == Block(0 - 1, ZeroHash, << >>, NoAddress, 0)

\* No call yet; and the record of a call: the transaction it was about, how
\* it ended, and whether 'transactionAdded' was emitted.
NoCbCall == [address |-> NoAddress, outcome |-> "none"]

NoCall == [op |-> "none", tx |-> NoTx, outcome |-> "none", error |-> "none",
           value |-> << >>, emitted |-> FALSE, direct |-> FALSE]

ThePeer == "peer1"

\* The node state that saveBlock reads and writes.
Node ==
    [byHeight |-> dbByHeight, latest |-> latestBlock, bal |-> balances,
     vals |-> validators, txs |-> txStore, height |-> currentHeight, ok |-> TRUE,
     json |-> toJSONReturns]

Install(n) ==
    /\ dbByHeight' = n.byHeight
    /\ latestBlock' = n.latest
    /\ balances' = n.bal
    /\ validators' = n.vals
    /\ txStore' = n.txs
    /\ currentHeight' = n.height

LogApply(block, origin, ok) ==
    applyLog' = Append(applyLog,
        [block |-> block, origin |-> origin, ok |-> ok,
         heightBefore |-> currentHeight, headBefore |-> latestBlock.hash,
         balBefore |-> balances, balAfter |-> balances',
         valsBefore |-> validators, valsAfter |-> validators',
         heightAfter |-> currentHeight'])

\* The entry of a pass of createBlock: also the pool as the pass leaves it.
LogApplyLocal(block, ok) ==
    applyLog' = Append(applyLog,
        [block |-> block, origin |-> "local", ok |-> ok,
         heightBefore |-> currentHeight, headBefore |-> latestBlock.hash,
         balBefore |-> balances, balAfter |-> balances',
         valsBefore |-> validators, valsAfter |-> validators',
         heightAfter |-> currentHeight',
         poolAfter |-> pendingTransactions'])

PeerHeight == Len(peerChain) - 1
PeerHead == peerChain[Len(peerChain)]

\* Blockchain.initialize on an empty store, then createGenesisBlock; the peer
\* has done the same at its own time.
\* The fields of a Blockchain and a P2PNode that were just constructed.
MemoryInit ==
    /\ pendingTransactions = << >>
    /\ vmValidators = EmptyMap
    /\ peers = {}
    /\ cbPc = "idle" /\ cbBlock = NoBlock /\ cbValid = {} /\ cbCall = NoCbCall
    /\ gPc = "idle" /\ gBlock = NoBlock
    /\ syPc = "idle" /\ syPeerHeight = 0 /\ syOurHeight = 0 /\ syI = 0 /\ syMark = 0
    /\ syEntries = << >>
    /\ \E t \in GenesisTimes : peerChain = <<GenesisBlock(t)>>
    /\ applyLog = << >>
    /\ syncLog = << >>
    /\ apiCall = NoCall

NodeInit ==
    /\ dbByHeight = MapSet(EmptyMap, 0, GenesisBlock(1))
    /\ latestBlock = GenesisBlock(1)
    /\ balances = [a \in Addresses |-> IF a = InitialAddress THEN InitialSupply ELSE 0]
    /\ validators = EmptyMap
    /\ txStore = {GenesisBlock(1).transactions[1].hash}
    /\ currentHeight = 0
    /\ MemoryInit

----------------------------------------------------------------------------
(* Blockchain.addTransaction *)

\* An addTransaction that appends without looking at the hash.
AddTransaction_NoHashCheck(tx, pool) ==
    [pool |-> Append(pool, tx), outcome |-> "returned", error |-> "none",
     value |-> tx.hash, emitted |-> TRUE]

\* addTransaction: throw on a hash mismatch; else push, emit, return the hash.
AddTransaction(tx, pool) ==
    IF ~VerifyHash(tx)
    THEN [pool |-> pool, outcome |-> "thrown", error |-> "Invalid transaction hash",
          value |-> << >>, emitted |-> FALSE]
    ELSE [pool |-> Append(pool, tx), outcome |-> "returned", error |-> "none",
          value |-> tx.hash, emitted |-> TRUE]

SubmitTransaction(tx) ==
    /\ Len(pendingTransactions) < MaxPending
    /\ LET r == AddTransaction(tx, pendingTransactions)
       IN  /\ pendingTransactions' = r.pool
           /\ apiCall' = [op |-> "addTransaction", tx |-> tx, outcome |-> r.outcome,
                          error |-> r.error, value |-> r.value, emitted |-> r.emitted,
                          direct |-> FALSE]
    /\ UNCHANGED <<ledgerVars, vmValidators, peers, cbVars, gossipVars, syncVars,
                   peerChain, applyLog>>
    /\ UNCHANGED <<protoVars, extVars>>

----------------------------------------------------------------------------
(* Blockchain.createBlock, run by the block timer.  The pass suspends      *)
(* between building the block and saving it (sign, saveBlock are awaited). *)

\* new Block(latestBlock.height + 1, latestBlock.hash, validTransactions, validatorAddress)
\* A block built at the height of the latest block.
BuildBlock_SameHeight(latest, valid, validatorAddress, timestamp) ==
    Block(latest.height, latest.hash, valid, validatorAddress, timestamp)

BuildBlock(latest, valid, validatorAddress, timestamp) ==
    Block(latest.height + 1, latest.hash, valid, validatorAddress, timestamp)

\* A createBlock that takes every address for a validator.
IsValidator_Always(vals, validatorAddress) == TRUE

\* this.validators.has(validatorAddress)
IsValidator(vals, validatorAddress) == MapHas(vals, validatorAddress)

\* Why createBlock returns before it builds a block, or "none".
SkipReason(validatorAddress) ==
    IF ~IsValidator(validators, validatorAddress) THEN "notValidator"
    ELSE IF pendingTransactions = << >> THEN "noPending"
    ELSE IF ValidTransactions(pendingTransactions, balances, validators,
                              validatorMinDeposit) = << >> THEN "noValid"
    ELSE "none"

\* createBlock returns early: not a validator, no pending transaction, or
\* no valid one.
CreateBlockSkips(validatorAddress) ==
    /\ cbPc = "idle"
    /\ SkipReason(validatorAddress) # "none"
    /\ cbCall' = [address |-> validatorAddress, outcome |-> SkipReason(validatorAddress)]
    /\ UNCHANGED <<cbPc, cbBlock, cbValid>>
    /\ UNCHANGED <<ledgerVars, pendingTransactions, vmValidators, peers, gossipVars,
                   syncVars, peerChain, applyLog>>
    /\ UNCHANGED <<protoVars, apiCall, extVars>>

\* createBlock up to the signed block.
CreateBlockBuilds(validatorAddress) ==
    /\ cbPc = "idle"
    /\ SkipReason(validatorAddress) = "none"
    /\ latestBlock.height < MaxHeight
    /\ LET valid == ValidTransactions(pendingTransactions, balances, validators,
                                      validatorMinDeposit)
       IN  \E ts \in BlockTimes :
                cbBlock' = SignBlock(BuildBlock(latestBlock, valid, validatorAddress, ts),
                                     validatorAddress)
    /\ cbValid' = ValidIndices(pendingTransactions, balances, validators,
                               validatorMinDeposit)
    /\ cbCall' = [address |-> validatorAddress, outcome |-> "built"]
    /\ cbPc' = "saving"
    /\ UNCHANGED <<ledgerVars, pendingTransactions, vmValidators, peers, gossipVars,
                   syncVars, peerChain, applyLog>>
    /\ UNCHANGED <<protoVars, apiCall, extVars>>

\* The pass of the block timer of this node.
CreateBlockBegin == CreateBlockBuilds(LocalValidator)

\* processValidatorRewards: stores a REWARD transaction and credits the producer.
ProcessValidatorRewards(validatorAddress, block, n, timestamp) ==
    LET totalReward == TotalReward(block.transactions)
        rewardTx == Rehash(Transaction("REWARD", NoAddress, validatorAddress, totalReward, 0, timestamp))
    IN  [n EXCEPT !.txs = n.txs \cup {rewardTx.hash},
                  !.bal[validatorAddress] = n.bal[validatorAddress] + totalReward]

CreateBlockSaveWithin(max) ==
    /\ cbPc = "saving"
    /\ Len(applyLog) < max
    /\ LET n == SaveBlock(cbBlock, Node)
       IN  IF n.ok
           THEN /\ \E ts \in BlockTimes :
                     Install(ProcessValidatorRewards(cbBlock.validator, cbBlock, n, ts))
                /\ pendingTransactions' = RemoveIncluded(pendingTransactions, cbValid)
                /\ LogApplyLocal(cbBlock, TRUE)
           ELSE /\ Install(n)
                /\ UNCHANGED pendingTransactions
                /\ LogApplyLocal(cbBlock, FALSE)
    /\ cbPc' = "idle"
    /\ cbBlock' = NoBlock
    /\ cbValid' = {}
    /\ cbCall' = NoCbCall
    /\ UNCHANGED <<vmValidators, peers, gossipVars, syncVars, peerChain>>
    /\ UNCHANGED <<protoVars, apiCall, extVars>>

CreateBlockSave == CreateBlockSaveWithin(MaxApplied)

----------------------------------------------------------------------------
(* The peer: an independent node that extends its own chain *)

\* The peer runs the same code: it saves a block it built only where the
\* toJSON calls of saveBlock return.
PeerProduce ==
    /\ toJSONReturns
    /\ PeerHeight < MaxPeerHeight
    /\ \E txs \in PeerTxLists, ts \in BlockTimes :
         peerChain' = Append(peerChain,
             SignBlock(BuildBlock(PeerHead, txs, RemoteValidator, ts), RemoteValidator))
    /\ UNCHANGED <<ledgerVars, pendingTransactions, vmValidators, peers, cbVars,
                   gossipVars, syncVars, applyLog>>
    /\ UNCHANGED <<protoVars, apiCall, extVars>>

----------------------------------------------------------------------------
(* P2PNode.syncWithPeer.  A request either returns the peer's answer or    *)
(* throws (Protocol.request: transport error, error response).             *)

SyncStarts ==
    /\ syPc' = "reqHeight"
    /\ syncLog' = <<[ev |-> "request", what |-> "height", h |-> 0]>>
    /\ syEntries' = << >>
    /\ UNCHANGED <<syPeerHeight, syOurHeight, syI, syMark>>

\* handlePeerConnect: records the peer, then syncs with it.
PeerConnect ==
    /\ ThePeer \notin peers
    /\ syPc \in {"idle", "done", "failed"}
    /\ peers' = peers \cup {ThePeer}
    /\ SyncStarts
    /\ UNCHANGED <<ledgerVars, pendingTransactions, vmValidators, cbVars, gossipVars,
                   peerChain, applyLog>>
    /\ UNCHANGED <<protoVars, apiCall, extVars>>

\* handlePeerDisconnect
PeerDisconnect ==
    /\ ThePeer \in peers
    /\ peers' = peers \ {ThePeer}
    /\ UNCHANGED <<ledgerVars, pendingTransactions, vmValidators, cbVars, gossipVars,
                   syncVars, peerChain, applyLog>>
    /\ UNCHANGED <<protoVars, apiCall, extVars>>

\* The height response: peerHeight, then ourHeight from getLatestBlock, then
\* either the first block request or the validator request.
SyncHeightResponse ==
    /\ syPc = "reqHeight"
    /\ LET peerHeight == PeerHeight
           ourHeight == latestBlock.height
       IN  /\ syPeerHeight' = peerHeight
           /\ syOurHeight' = ourHeight
           /\ syMark' = Len(applyLog)
           /\ IF SyncNeeded(peerHeight, ourHeight)
                 /\ SyncLoopContinues(SyncFirstHeight(ourHeight), peerHeight)
              THEN /\ syI' = SyncFirstHeight(ourHeight)
                   /\ syPc' = "reqBlock"
                   /\ syncLog' = Append(syncLog,
                        [ev |-> "request", what |-> "block", h |-> SyncFirstHeight(ourHeight)])
              ELSE /\ syI' = syI
                   /\ syPc' = "reqValidators"
                   /\ syncLog' = Append(syncLog,
                        [ev |-> "request", what |-> "validators", h |-> 0])
    /\ UNCHANGED syEntries
    /\ UNCHANGED <<ledgerVars, pendingTransactions, vmValidators, peers, cbVars,
                   gossipVars, peerChain, applyLog>>
    /\ UNCHANGED <<protoVars, apiCall, extVars>>

\* A request of the sync throws: the sync ends, nothing more is requested.
SyncRequestFails ==
    /\ syPc \in {"reqHeight", "reqBlock", "reqValidators"}
    /\ syPc' = "failed"
    /\ syncLog' = Append(syncLog, [ev |-> "threw", what |-> syPc, h |-> 0])
    /\ UNCHANGED <<syPeerHeight, syOurHeight, syI, syMark, syEntries>>
    /\ UNCHANGED <<ledgerVars, pendingTransactions, vmValidators, peers, cbVars,
                   gossipVars, peerChain, applyLog>>
    /\ UNCHANGED <<protoVars, apiCall, extVars>>

\* What syncWithPeer does with a block response: saveBlock, nothing else.
SyncApply(block, n) == SaveBlock(block, n)

\* The block response for height i: the block is saved as it came; then the
\* next block is requested, or the validators once the loop is over.
SyncBlockResponseWithin(max) ==
    /\ syPc = "reqBlock"
    /\ syI <= PeerHeight
    /\ Len(applyLog) < max
    /\ LET block == peerChain[syI + 1]
           n == SyncApply(block, Node)
           next == SyncNextHeight(syI)
       IN  /\ Install(n)
           /\ LogApply(block, "sync", n.ok)
           /\ IF ~n.ok
              THEN /\ syPc' = "failed"
                   /\ syI' = syI
                   /\ syncLog' = Append(syncLog, [ev |-> "rejected", what |-> "block", h |-> syI])
              ELSE /\ syI' = next
                   /\ IF SyncLoopContinues(next, syPeerHeight)
                      THEN /\ syPc' = "reqBlock"
                           /\ syncLog' = syncLog \o
                                <<[ev |-> "applied", what |-> "block", h |-> syI],
                                  [ev |-> "request", what |-> "block", h |-> next]>>
                      ELSE /\ syPc' = "reqValidators"
                           /\ syncLog' = syncLog \o
                                <<[ev |-> "applied", what |-> "block", h |-> syI],
                                  [ev |-> "request", what |-> "validators", h |-> 0]>>
    /\ UNCHANGED <<syPeerHeight, syOurHeight, syMark, syEntries>>
    /\ UNCHANGED <<pendingTransactions, vmValidators, peers, cbVars, gossipVars, peerChain>>
    /\ UNCHANGED <<protoVars, apiCall, extVars>>

SyncBlockResponse == SyncBlockResponseWithin(MaxApplied)

\* ValidatorManager.registerValidator for every peer validator unknown locally;
\* it throws for an amount below the minimum deposit.
RECURSIVE RegisterUnknown(_, _)
RegisterUnknown(entries, st) ==
    IF entries = << >> \/ ~st.ok
    THEN st
    ELSE LET address == Head(entries)[1]
             amount == Head(entries)[2]
             next == IF MapHas(st.vals, address) THEN st
                     ELSE IF Hundredths(amount) < minimumDeposit THEN [st EXCEPT !.ok = FALSE]
                     ELSE [st EXCEPT !.vals = MapSet(st.vals, address,
                                        StakeOrZero(st.vals, address) + amount)]
         IN  RegisterUnknown(Tail(entries), next)

\* The validators response: the entries are walked in order; the first
\* registerValidator that throws ends the sync, and save() is not reached.
SyncValidatorsFrom(entries) ==
    /\ syPc = "reqValidators"
    /\ syEntries' = entries
    /\ LET st == RegisterUnknown(entries, [vals |-> vmValidators, ok |-> TRUE])
       IN  /\ vmValidators' = st.vals
           /\ syPc' = IF st.ok THEN "done" ELSE "failed"
           /\ syncLog' = Append(syncLog,
                [ev |-> IF st.ok THEN "done" ELSE "threw", what |-> "validators", h |-> 0])
    /\ UNCHANGED <<syPeerHeight, syOurHeight, syI, syMark>>
    /\ UNCHANGED <<ledgerVars, pendingTransactions, peers, cbVars, gossipVars,
                   peerChain, applyLog>>
    /\ UNCHANGED <<protoVars, apiCall, extVars>>

SyncValidatorsResponse == SyncValidatorsFrom(PeerValidators)

----------------------------------------------------------------------------
(* P2PNode.handleBlockMessage.  The handler suspends between its height    *)
(* and linkage checks and the save (the signature check is awaited).       *)

\* P2PNode.syncBlockchain: nothing without peers, else a sync with one of them.
SyncBlockchainStarts == peers # {} /\ syPc \in {"idle", "done", "failed"}

\* Blocks the network delivers: the peer's blocks, and blocks that a remote
\* validator built on this node's head, well or badly linked, signed or not.
GossipBlocks ==
    {peerChain[i] : i \in 1..Len(peerChain)}
    \cup
    IF latestBlock.height < MaxHeight
    THEN UNION {
           LET b == Block(latestBlock.height + 1, prev, txs, val, ts)
           IN  IF val \in KnownPubkeys THEN {b, SignBlock(b, val)} ELSE {SignBlock(b, val)} :
           <<prev, txs, val, ts>> \in
              {latestBlock.hash, ZeroHash} \X RemoteTxLists \X {RemoteValidator, "Y"} \X BlockTimes }
    ELSE {}

\* A check that sends a block above the next height on to the signature check.
GossipCheck_NoGap(block, latest) ==
    IF block.height <= latest.height THEN "ignored"
    ELSE IF latest.height >= 0 /\ block.previousHash # latest.hash THEN "badprev"
    ELSE "verify"

\* The checks of handleBlockMessage before the signature check, in order.
GossipCheck(block, latest) ==
    IF block.height <= latest.height THEN "ignored"
    ELSE IF block.height > latest.height + 1 THEN "behind"
    ELSE IF latest.height >= 0 /\ block.previousHash # latest.hash THEN "badprev"
    ELSE "verify"

GossipReceive(block) ==
    /\ gPc = "idle"
    /\ LET check == GossipCheck(block, latestBlock)
       IN  CASE check = "verify" ->
                  /\ gPc' = "verifying"
                  /\ gBlock' = block
                  /\ UNCHANGED syncVars
             [] check = "behind" /\ SyncBlockchainStarts ->
                  /\ SyncStarts
                  /\ UNCHANGED <<gPc, gBlock>>
             [] OTHER ->
                  UNCHANGED <<gPc, gBlock, syncVars>>
    /\ UNCHANGED <<ledgerVars, pendingTransactions, vmValidators, peers, cbVars,
                   peerChain, applyLog>>
    /\ UNCHANGED <<protoVars, apiCall, extVars>>

\* The signature check, then saveBlock; a throw of saveBlock is caught and logged.
GossipVerifiedWithin(max) ==
    /\ gPc = "verifying"
    /\ IF ~VerifySignature(gBlock)
       THEN UNCHANGED <<ledgerVars, applyLog>>
       ELSE /\ Len(applyLog) < max
            /\ LET n == SaveBlock(gBlock, Node)
               IN  /\ Install(n)
                   /\ LogApply(gBlock, "gossip", n.ok)
    /\ gPc' = "idle"
    /\ gBlock' = NoBlock
    /\ UNCHANGED <<pendingTransactions, vmValidators, peers, cbVars, syncVars, peerChain>>
    /\ UNCHANGED <<protoVars, apiCall, extVars>>

GossipVerified == GossipVerifiedWithin(MaxApplied)

----------------------------------------------------------------------------
(* Protocol (protocol.js): request() on this node, the responder handlers  *)
(* on the node it dials, and handleResponse.                               *)
(*                                                                         *)
(* protocol.js calls pipe(...) but neither defines nor imports it (its     *)
(* line 7: "Without using the it-pipe library"), so as the file stands     *)
(* every call throws a ReferenceError: pipeDefined = FALSE.  The state     *)
(* pipeDefined = TRUE covers the paths behind the call for a host that     *)
(* binds the name.                                                         *)

MaxRequests == 2      \* request() is called at most this many times

MaxInitialNodes == 10

RequestKinds == {"height", "block", "validators", "pubkey", "initial-tokens"}

\* The handlers that read a request from the stream before they answer.
ReadsRequest(kind) == kind \in {"block", "pubkey", "initial-tokens"}

NoStream == [open |-> FALSE, kind |-> "none", requestWritten |-> FALSE,
             handled |-> FALSE, failed |-> FALSE, responses |-> << >>, closed |-> FALSE]

Ids == 1..MaxRequests

ProtoInit ==
    /\ pipeDefined \in BOOLEAN
    /\ nextId = 0
    /\ pendingRequests = {}
    /\ timers = {}
    /\ timedOut = {}
    /\ promise = EmptyMap
    /\ rqPc = "idle" /\ rqId = 0 /\ rqKind = "none" /\ rqResult = "none"
    /\ stream = NoStream
    /\ initialCount = 0

\* A clean-up that forgets to delete the entry.
ClearPendingRequest_Keeps(id, table) == table

\* The clean-up of request(), in its try and in its catch: if the table has
\* the id, clear its timer and delete the entry.
ClearPendingRequest(id, table) == table \ {id}

\* pipe([...], stream.sink): the message is written, or the call throws.
PipeThrows == ~pipeDefined

\* request(): the promise with its timer and table entry, then dialProtocol.
RequestStart(kind) ==
    /\ rqPc \in {"idle", "returned", "thrown"}
    /\ nextId < MaxRequests
    /\ nextId' = nextId + 1
    /\ rqId' = nextId + 1
    /\ rqKind' = kind
    /\ rqPc' = "dialing"
    /\ rqResult' = "none"
    /\ pendingRequests' = pendingRequests \cup {nextId + 1}
    /\ timers' = timers \cup {nextId + 1}
    /\ promise' = MapSet(promise, nextId + 1, "pending")
    /\ stream' = NoStream
    /\ UNCHANGED <<pipeDefined, timedOut, initialCount, nodeVars>>

\* The catch block of request(): clean up, rethrow.
RequestThrows(why) ==
    /\ rqPc' = "thrown"
    /\ rqResult' = why
    /\ pendingRequests' = ClearPendingRequest(rqId, pendingRequests)
    /\ timers' = timers \ {rqId}

\* dialProtocol rejects.
RequestDialFails ==
    /\ rqPc = "dialing"
    /\ RequestThrows("dial")
    /\ UNCHANGED <<pipeDefined, nextId, timedOut, promise, rqId, rqKind, stream,
                   initialCount, nodeVars>>

\* dialProtocol resolves with a stream; the request is written with pipe.
RequestDialed ==
    /\ rqPc = "dialing"
    /\ IF PipeThrows
       THEN /\ RequestThrows("ReferenceError")
            /\ stream' = [NoStream EXCEPT !.open = TRUE, !.kind = rqKind]
       ELSE /\ rqPc' = "reading"
            /\ stream' = [NoStream EXCEPT !.open = TRUE, !.kind = rqKind,
                                          !.requestWritten = TRUE]
            /\ UNCHANGED <<rqResult, pendingRequests, timers>>
    /\ UNCHANGED <<pipeDefined, nextId, timedOut, promise, rqId, rqKind,
                   initialCount, nodeVars>>

\* The timer of request(): deletes the entry and rejects the promise.  The
\* call itself awaits dialProtocol or readStream, never this promise.
RequestTimerFires(id) ==
    /\ id \in timers
    /\ timers' = timers \ {id}
    /\ timedOut' = timedOut \cup {id}
    /\ pendingRequests' = pendingRequests \ {id}
    /\ promise' = [promise EXCEPT ![id] = "rejected"]
    /\ UNCHANGED <<pipeDefined, nextId, rqPc, rqId, rqKind, rqResult, stream,
                   initialCount, nodeVars>>

\* readStream returns once the responder has closed the stream; the response
\* is parsed, the entry cleared, and an error response is thrown.
RequestReadsResponse ==
    /\ rqPc = "reading"
    /\ stream.closed
    /\ IF stream.responses = << >>
       THEN RequestThrows("TypeError")
       ELSE IF Head(stream.responses) = "error"
       THEN RequestThrows("remote")
       ELSE /\ rqPc' = "returned"
            /\ rqResult' = Head(stream.responses)
            /\ pendingRequests' = ClearPendingRequest(rqId, pendingRequests)
            /\ timers' = timers \ {rqId}
    /\ UNCHANGED <<pipeDefined, nextId, timedOut, promise, rqId, rqKind, stream,
                   initialCount, nodeVars>>

\* handleResponse for a message {id, response | error} on a /response stream.
HandleResponse(id, isError) ==
    /\ id \in DOMAIN promise
    /\ IF id \in pendingRequests
       THEN /\ timers' = timers \ {id}
            /\ pendingRequests' = pendingRequests \ {id}
            /\ promise' = [promise EXCEPT ![id] = IF isError THEN "rejected" ELSE "resolved"]
       ELSE UNCHANGED <<timers, pendingRequests, promise>>
    /\ UNCHANGED <<pipeDefined, nextId, timedOut, rqPc, rqId, rqKind, rqResult, stream,
                   initialCount, nodeVars>>

\* What a responder handler answers in its try block: the answer, or "throw"
\* when computing it fails.  handleInitialTokens passes a plain object to
\* addTransaction, whose verifyHash() call throws.
HandlerAnswers(kind, count) ==
    CASE kind = "initial-tokens" ->
            IF count >= MaxInitialNodes THEN {"denied"} ELSE {"throw"}
      [] kind \in {"block", "height"} -> {"answer", "throw"}
      [] OTHER -> {"answer"}

\* The error-tagged response of a catch block: {error: ...}, and
\* {success: false, reason: ...} in handleInitialTokens.
ErrorResponse(kind) == IF kind = "initial-tokens" THEN "failure" ELSE "error"

\* The writes of a handler: the answer in the try block, the error-tagged
\* response in the catch block; a pipe that throws in the try block is
\* caught, one that throws in the catch block ends the handler.
HandlerResponses(kind, answer) ==
    IF PipeThrows THEN << >>
    ELSE IF answer = "throw" THEN <<ErrorResponse(kind)>>
    ELSE <<answer>>

\* A responder handler (handleSyncHeight, handleSyncBlock, handleSyncValidators,
\* handleAddressPubkey, handleInitialTokens) on an opened stream: try, catch,
\* and stream.close() in finally.
HandlerRuns ==
    /\ stream.open
    /\ ~stream.handled
    /\ ReadsRequest(stream.kind) => stream.requestWritten
    /\ \E answer \in HandlerAnswers(stream.kind, initialCount) :
         stream' = [stream EXCEPT !.handled = TRUE,
                                  !.failed = (answer = "throw"),
                                  !.responses = HandlerResponses(stream.kind, answer),
                                  !.closed = TRUE]
    /\ UNCHANGED <<pipeDefined, nextId, pendingRequests, timers, timedOut, promise,
                   rqPc, rqId, rqKind, rqResult, initialCount, nodeVars>>

ProtoNext ==
    \/ \E kind \in RequestKinds : RequestStart(kind)
    \/ RequestDialFails
    \/ RequestDialed
    \/ \E id \in Ids : RequestTimerFires(id)
    \/ RequestReadsResponse
    \/ \E id \in Ids, isError \in BOOLEAN : HandleResponse(id, isError)
    \/ HandlerRuns

----------------------------------------------------------------------------
(* Node.sendMessage and its rate limiter.  A call suspends between the     *)
(* check of the limits and the update of the counters (isWhitelisted,      *)
(* encryptMessage, sign and broadcastTransaction are awaited).             *)

MaxResets == 1        \* resetMessageCounts runs at most this many times

\* The callers that may have a sendMessage call running at the same time.
Callers == {1, 2}

Recipients == {"Y", "W"}

\* Strings handed to sendMessage as fromAddress; "bad" is not an address.
FromAddresses == {"X", "Y", "bad"}

\* `hourly.get(from) || {total: 0, perAddress: {}}` and
\* `perAddress[to] || 0`: a missing entry reads as zero, so the map is kept
\* as a total function.
NoCounts == [total |-> 0, perAddress |-> [a \in Recipients |-> 0]]

NoSend == [pc |-> "idle", from |-> NoAddress, to |-> NoAddress, error |-> "none",
           value |-> << >>]

\* checkMessageRateLimits: the error it throws, or "none".
RateLimitError(stats, to) ==
    IF stats.total >= MaxMessagesPerHour
    THEN "Message rate limit exceeded"
    ELSE IF stats.perAddress[to] >= MaxMessagesToAddressPerHour
    THEN "Message rate limit to address exceeded"
    ELSE "none"

\* updateMessageCount
UpdateMessageCount(counts, from, to) ==
    [counts EXCEPT ![from] =
        [total |-> @.total + 1,
         perAddress |-> [@.perAddress EXCEPT ![to] = @ + 1]]]

\* The transaction sendMessage hands to addTransaction: createMessage, then
\* the rewards or the fee assigned on the object, then sign.
MessageTx(from, to, isWhitelisted, timestamp) ==
    LET tx == CreateMessage(from, to, "hello", isWhitelisted, timestamp)
        set == IF isWhitelisted
               THEN [tx EXCEPT !.senderReward = SendReward, !.receiverReward = ReceiveReward]
               ELSE [tx EXCEPT !.fee = NonWhitelistedFee]
    IN  SignTransaction(set, from)

MsgInit ==
    /\ hourly = [a \in WalletAddresses |-> NoCounts]
    /\ smCalls = [c \in Callers |-> NoSend]
    /\ resets = 0

\* sendMessage up to the end of checkMessageRateLimits.
SendMessageBegin(c, from, to) ==
    /\ smCalls[c].pc \in {"idle", "thrown", "returned"}
    /\ LET call == [NoSend EXCEPT !.from = from, !.to = to]
           error == IF from \notin Addresses
                    THEN "Invalid address format"
                    ELSE IF from \notin WalletAddresses
                    THEN "Address not found in wallet"
                    ELSE RateLimitError(hourly[from], to)
       IN  smCalls' = [smCalls EXCEPT ![c] =
                IF error # "none"
                THEN [call EXCEPT !.pc = "thrown", !.error = error]
                ELSE [call EXCEPT !.pc = "checked"]]
    /\ UNCHANGED <<hourly, resets>>
    /\ UNCHANGED <<ledgerVars, pendingTransactions, vmValidators, peers, cbVars, gossipVars,
                   syncVars, peerChain, applyLog, apiCall>>
    /\ UNCHANGED <<toJSONReturns, depositVars, protoVars, notMsg>>

\* The rest of sendMessage: the transaction is built and signed,
\* addTransaction either throws or queues it, and only then the counters of
\* the sender are updated.
SendMessageFinish(c, isWhitelisted, timestamp) ==
    /\ smCalls[c].pc = "checked"
    /\ Len(pendingTransactions) < MaxPending
    /\ LET from == smCalls[c].from
           to == smCalls[c].to
           r == AddTransaction(MessageTx(from, to, isWhitelisted, timestamp),
                               pendingTransactions)
       IN  IF r.outcome = "thrown"
           THEN /\ smCalls' = [smCalls EXCEPT ![c].pc = "thrown", ![c].error = r.error]
                /\ UNCHANGED <<pendingTransactions, hourly>>
           ELSE /\ smCalls' = [smCalls EXCEPT ![c].pc = "returned", ![c].value = r.value]
                /\ pendingTransactions' = r.pool
                /\ hourly' = UpdateMessageCount(hourly, from, to)
    /\ UNCHANGED resets
    /\ UNCHANGED <<ledgerVars, vmValidators, peers, cbVars, gossipVars,
                   syncVars, peerChain, applyLog, apiCall>>
    /\ UNCHANGED <<toJSONReturns, depositVars, protoVars, notMsg>>

\* resetMessageCounts, run by the hourly interval.
ResetMessageCounts ==
    /\ resets < MaxResets
    /\ resets' = resets + 1
    /\ hourly' = [a \in WalletAddresses |-> NoCounts]
    /\ UNCHANGED smCalls
    /\ UNCHANGED <<ledgerVars, pendingTransactions, vmValidators, peers, cbVars, gossipVars,
                   syncVars, peerChain, applyLog, apiCall>>
    /\ UNCHANGED <<toJSONReturns, depositVars, protoVars, notMsg>>

MessagesNext ==
    \/ \E c \in Callers, from \in FromAddresses, to \in Recipients :
          SendMessageBegin(c, from, to)
    \/ \E c \in Callers, isWhitelisted \in BOOLEAN, timestamp \in BlockTimes :
          SendMessageFinish(c, isWhitelisted, timestamp)
    \/ ResetMessageCounts

----------------------------------------------------------------------------
(* toJSON and fromJSON of Transaction and Block, and Block.sign *)

\* Date.now() when fromJSON runs the constructor.
DecodeTimes == {4, 5}

\* Transaction.toJSON: an object with the eleven fields.
TxToJSON(tx) ==
    [type |-> tx.type, from |-> tx.from, to |-> tx.to, amount |-> tx.amount,
     fee |-> tx.fee, data |-> tx.data, timestamp |-> tx.timestamp, hash |-> tx.hash,
     signature |-> tx.signature, senderReward |-> tx.senderReward,
     receiverReward |-> tx.receiverReward]

\* `value || 0` on a number.
OrZero(value) == IF value = 0 THEN 0 ELSE value

\* A fromJSON that keeps the timestamp of its constructor call.
TxFromJSON_FreshTimestamp(data, timestamp) ==
    [TransactionWith(data.type, data.from, data.to, data.amount, data.fee, data.data,
                     timestamp)
        EXCEPT !.hash = data.hash,
               !.signature = data.signature,
               !.senderReward = OrZero(data.senderReward),
               !.receiverReward = OrZero(data.receiverReward)]

\* Transaction.fromJSON: the constructor (which stamps Date.now() and
\* hashes), then timestamp, hash, signature and the rewards from the data.
TxFromJSON(data, timestamp) ==
    [TransactionWith(data.type, data.from, data.to, data.amount, data.fee, data.data,
                     timestamp)
        EXCEPT !.timestamp = data.timestamp,
               !.hash = data.hash,
               !.signature = data.signature,
               !.senderReward = OrZero(data.senderReward),
               !.receiverReward = OrZero(data.receiverReward)]

\* Block.calculateHash of a block object.
CalculateBlockHash(block) ==
    CalculateHash(block.height, block.previousHash, block.timestamp, block.transactions,
                  block.validator)

\* Block.toJSON where it returns; size stands for the length of a text of
\* the block, which fromJSON does not read.
BlockToJSON(block) ==
    [height |-> block.height, hash |-> block.hash, previousHash |-> block.previousHash,
     timestamp |-> block.timestamp, transactions |-> block.transactions,
     validator |-> block.validator, signature |-> block.signature,
     size |-> Len(block.transactions)]

\* Block.fromJSON: the constructor on the five fields, then hash and
\* signature from the data.
BlockFromJSON(data) ==
    [Block(data.height, data.previousHash, data.transactions, data.validator,
           data.timestamp)
        EXCEPT !.hash = data.hash, !.signature = data.signature]

\* Transactions as the factories and their callers leave them: hashed in the
\* constructor or rehashed by the caller, unsigned or signed, messages with
\* the rewards or the fee assigned.
CodecTxs ==
    LET made == {CreateTransfer("X", "Y", 30, 1, t) : t \in GenesisTimes}
                \cup {CreateValidatorRegister("V", 90, 1, t) : t \in GenesisTimes}
                \cup {CreateWhitelist("X", "Y", "add", 1),
                      Transaction("MINT", NoAddress, "X", InitialSupply, 0, 1)}
    IN  made
        \cup {Rehash(tx) : tx \in made}
        \cup {SignTransaction(tx, tx.from) : tx \in made}
        \cup {MessageTx("X", to, isWhitelisted, 1) :
                 to \in Recipients, isWhitelisted \in BOOLEAN}

\* Blocks fresh from the constructor.
CodecBlocks ==
    {Block(1, GenesisBlock(1).hash, txs, LocalValidator, t) :
        txs \in {<<Rehash(CreateTransfer("X", "V", 100, 0, 1))>>,
                 <<Rehash(CreateTransfer("X", "X", 200, 0, 1)),
                   Rehash(CreateTransfer("X", "V", 100, 0, 1))>>},
        t \in BlockTimes}

CodecIdle ==
    /\ cTx = NoTx /\ cTxPc = "none" /\ cTxJson = NoTx /\ cTxBack = NoTx
    /\ cBlock = NoBlock /\ cBlockPc = "none" /\ cBlockJson = NoBlock
    /\ cBlockBack = NoBlock /\ cBlockHash0 = NoBlock.hash

TransactionToJSON ==
    /\ cTxPc = "new"
    /\ cTxJson' = TxToJSON(cTx)
    /\ cTxPc' = "json"
    /\ UNCHANGED <<cTx, cTxBack, cBlock, cBlockPc, cBlockJson, cBlockBack, cBlockHash0>>
    /\ UNCHANGED <<nodeVarsButExt, toJSONReturns, depositVars, protoVars, notCodec>>

TransactionFromJSON(timestamp) ==
    /\ cTxPc = "json"
    /\ cTxBack' = TxFromJSON(cTxJson, timestamp)
    /\ cTxPc' = "back"
    /\ UNCHANGED <<cTx, cTxJson, cBlock, cBlockPc, cBlockJson, cBlockBack, cBlockHash0>>
    /\ UNCHANGED <<nodeVarsButExt, toJSONReturns, depositVars, protoVars, notCodec>>

\* Block.sign with the key of the validator of the block.
BlockSign ==
    /\ cBlockPc = "new"
    /\ cBlock.signature = NoSignature
    /\ cBlock' = SignBlock(cBlock, cBlock.validator)
    /\ UNCHANGED <<cTx, cTxPc, cTxJson, cTxBack, cBlockPc, cBlockJson, cBlockBack,
                   cBlockHash0>>
    /\ UNCHANGED <<nodeVarsButExt, toJSONReturns, depositVars, protoVars, notCodec>>

\* block.toJSON(): its `size: JSON.stringify(this).length` makes
\* JSON.stringify call this.toJSON() again, and so on until the stack is
\* exhausted (RangeError).
BlockToJSONCall ==
    /\ cBlockPc = "new"
    /\ IF toJSONReturns
       THEN /\ cBlockJson' = BlockToJSON(cBlock)
            /\ cBlockPc' = "json"
       ELSE /\ cBlockPc' = "thrown"
            /\ UNCHANGED cBlockJson
    /\ UNCHANGED <<cTx, cTxPc, cTxJson, cTxBack, cBlock, cBlockBack, cBlockHash0>>
    /\ UNCHANGED <<nodeVarsButExt, toJSONReturns, depositVars, protoVars, notCodec>>

BlockFromJSONCall ==
    /\ cBlockPc = "json"
    /\ cBlockBack' = BlockFromJSON(cBlockJson)
    /\ cBlockPc' = "back"
    /\ UNCHANGED <<cTx, cTxPc, cTxJson, cTxBack, cBlock, cBlockJson, cBlockHash0>>
    /\ UNCHANGED <<nodeVarsButExt, toJSONReturns, depositVars, protoVars, notCodec>>

CodecNext ==
    \/ TransactionToJSON
    \/ \E timestamp \in DecodeTimes : TransactionFromJSON(timestamp)
    \/ BlockSign
    \/ BlockToJSONCall
    \/ BlockFromJSONCall

----------------------------------------------------------------------------
(* Protocol.handleInitialTokens on the node that serves the requests *)

\* The handler calls that may run at the same time.
TokHandlers == {1, 2}

NoTokCall == [pc |-> "idle", address |-> NoAddress, count |-> 0, answer |-> "none"]

\* The object handleInitialTokens builds: a literal, not a Transaction.
InitialTokensObject(address, timestamp) ==
    [type |-> "MINT", to |-> address, amount |-> InitialSupply, timestamp |-> timestamp,
     data |-> << <<"source", "initial_distribution">> >>]

\* addTransaction on an object without a verifyHash method: the call
\* `transaction.verifyHash()` throws a TypeError before anything is pushed.
AddPlainObject(object, pool) ==
    [pool |-> pool, outcome |-> "thrown",
     error |-> "transaction.verifyHash is not a function", value |-> << >>,
     emitted |-> FALSE]

\* What the requester reads when the handler writes `response`: nothing
\* where pipe throws (the write in the catch block throws as well).
TokAnswer(response) == IF PipeThrows THEN "none" ELSE response

\* handleInitialTokens up to the read of INITIAL_TOKENS_COUNT.
TokRead(h, address) ==
    /\ tokCalls[h].pc \in {"idle", "closed"}
    /\ tokCalls' = [tokCalls EXCEPT ![h] =
            [pc |-> "read", address |-> address, count |-> initialCount,
             answer |-> "none"]]
    /\ UNCHANGED tokGranted
    /\ UNCHANGED <<nodeVarsButExt, toJSONReturns, depositVars, protoVars, notTok>>

\* The rest of the handler: the cap is tested on the count that was read;
\* below it the object is handed to addTransaction, and only after that
\* call has returned is the count written back, one higher.
TokFinish(h, timestamp) ==
    /\ tokCalls[h].pc = "read"
    /\ LET call == tokCalls[h]
           r == AddPlainObject(InitialTokensObject(call.address, timestamp),
                               pendingTransactions)
       IN  IF call.count >= MaxInitialNodes
           THEN /\ tokCalls' = [tokCalls EXCEPT ![h].pc = "closed",
                                                ![h].answer = TokAnswer("denied")]
                /\ UNCHANGED <<pendingTransactions, initialCount, tokGranted>>
           ELSE IF r.outcome = "thrown"
           THEN /\ tokCalls' = [tokCalls EXCEPT ![h].pc = "closed",
                                                ![h].answer = TokAnswer("failure")]
                /\ UNCHANGED <<pendingTransactions, initialCount, tokGranted>>
           ELSE /\ pendingTransactions' = r.pool
                /\ initialCount' = call.count + 1
                /\ tokCalls' = [tokCalls EXCEPT ![h].pc = "closed",
                                                ![h].answer = TokAnswer("success")]
                /\ tokGranted' = IF PipeThrows THEN tokGranted ELSE tokGranted + 1
    /\ UNCHANGED <<ledgerVars, vmValidators, peers, cbVars, gossipVars, syncVars,
                   peerChain, applyLog, apiCall>>
    /\ UNCHANGED <<pipeDefined, nextId, pendingRequests, timers, timedOut, promise,
                   rqPc, rqId, rqKind, rqResult, stream>>
    /\ UNCHANGED <<toJSONReturns, depositVars, notTok>>

TokensNext ==
    \/ \E h \in TokHandlers, address \in Recipients : TokRead(h, address)
    \/ \E h \in TokHandlers, timestamp \in BlockTimes : TokFinish(h, timestamp)

----------------------------------------------------------------------------
(* The node *)

\* block.js as it stands, and the node behind its toJSON calls.
ExtInit ==
    /\ toJSONReturns \in BOOLEAN
    /\ validatorMinDeposit = Hundredths(ValidatorMinDeposit)
    /\ minimumDeposit = Hundredths(ValidatorMinDeposit)
    /\ lastYearlyUpdate = 0
    /\ now = 0
    /\ MsgInit

\* A node that has run initialize() on an empty store.
StoreRunning ==
    /\ running = TRUE
    /\ latestRecord = "block"
    /\ initResult = "genesis"
    /\ starts = 1

\* No handleInitialTokens call yet.
TokInit ==
    /\ tokCalls = [h \in TokHandlers |-> NoTokCall]
    /\ tokGranted = 0

\* The block timer has started no pass; no call of isTransactionValid, of
\* selectNextValidator or of a monthly reward pass has been made.
Passes == {1, 2}

NoMonthly == [pass |-> "none", poolBefore |-> << >>, returned |-> << >>]

NoReceipt == [n |-> 0, height |-> 0, latestHeight |-> 0, started |-> FALSE]

LateInit ==
    /\ tpPc = [p \in Passes |-> "idle"]
    /\ tpBlock = [p \in Passes |-> NoBlock]
    /\ tpValid = [p \in Passes |-> {}]
    /\ ivTx = NoTx /\ ivOut = "none"
    /\ snEntries = << >> /\ snRandom = 0 /\ snOut = "none"
    /\ mrCall = NoMonthly
    /\ gLast = NoReceipt

Init == NodeInit /\ ProtoInit /\ ExtInit /\ StoreRunning /\ CodecIdle /\ TokInit /\ LateInit


Next ==
    \/ \E tx \in SubmittedTxs : SubmitTransaction(tx)
    \/ CreateBlockBegin
    \/ CreateBlockSave
    \/ PeerProduce
    \/ PeerConnect
    \/ PeerDisconnect
    \/ SyncHeightResponse
    \/ SyncRequestFails
    \/ SyncBlockResponse
    \/ SyncValidatorsResponse
    \/ \E block \in GossipBlocks : GossipReceive(block)
    \/ GossipVerified

vars == <<nodeVars, protoVars>>

Spec == Init /\ [][Next]_vars

\* The protocol alone, on a node whose ledger is at rest.
SpecProtocol == Init /\ [][ProtoNext]_vars

\* The codec alone, on one transaction and one block.
CodecInit ==
    /\ NodeInit /\ ProtoInit /\ ExtInit /\ StoreRunning /\ TokInit /\ LateInit
    /\ cTx \in CodecTxs /\ cTxPc = "new" /\ cTxJson = NoTx /\ cTxBack = NoTx
    /\ cBlock \in CodecBlocks /\ cBlockPc = "new" /\ cBlockJson = NoBlock
    /\ cBlockBack = NoBlock /\ cBlockHash0 = cBlock.hash

SpecCodec == CodecInit /\ [][CodecNext]_vars

\* The node that serves /initial-tokens.
SpecTokens == Init /\ [][TokensNext]_vars

\* The message API alone.
SpecMessages == Init /\ [][MessagesNext]_vars

----------------------------------------------------------------------------
(* The ledger of a node that hears one remote validator and serves local   *)
(* callers: transactions over gossip and from the local API, blocks of the *)
(* remote validator, validator announcements, and its own block production *)

TxBigA == Rehash(Transaction("TRANSFER", "X", "Y", 10000, 0, 1))
TxBigB == Rehash(Transaction("TRANSFER", "X", "Y", 10000, 0, 2))
TxSelf == Rehash(Transaction("TRANSFER", "X", "X", 200, 0, 1))
TxFund == Rehash(Transaction("TRANSFER", "X", "V", 100, 0, 1))
TxRegisterLow == Rehash(Transaction("VALIDATOR_REGISTER", "X", NoAddress, 40, 0, 1))

\* Transactions handed to addTransaction: consistent ones from the network,
\* and ones fresh from a factory.
LedgerTxs == {TxTransfer, TxBigA, TxBigB, TxSelf} \cup FactoryTxs

\* Transaction lists of the blocks the remote validator builds on this
\* node's head.
LedgerRemoteTxLists == {<<TxFund, TxRegister>>, <<TxRegisterLow>>}

LedgerGossipBlocks ==
    IF latestBlock.height < MaxHeight
    THEN {SignBlock(Block(latestBlock.height + 1, latestBlock.hash, txs, RemoteValidator, ts),
                    RemoteValidator) :
             txs \in LedgerRemoteTxLists, ts \in BlockTimes}
    ELSE {}


\* P2PNode.sendTokens: balance check, createTransfer, sign, addTransaction;
\* with peers the transaction is broadcast, without peers both balances are
\* written directly.  Any throw after the balance check is rethrown as
\* 'Failed to process transfer'.
SendTokens(fromAddress, toAddress, amount, fee, timestamp) ==
    /\ Len(pendingTransactions) < MaxPending
    /\ LET balance == balances[fromAddress]
           tx == SignTransaction(CreateTransfer(fromAddress, toAddress, amount, fee, timestamp),
                                 fromAddress)
           r == AddTransaction(tx, pendingTransactions)
           call == [op |-> "sendTokens", tx |-> tx, outcome |-> "thrown",
                    error |-> "none", value |-> << >>, emitted |-> FALSE, direct |-> FALSE]
       IN  IF balance < amount + fee
           THEN /\ apiCall' = [call EXCEPT !.error = "Insufficient balance"]
                /\ UNCHANGED <<pendingTransactions, balances>>
           ELSE IF r.outcome = "thrown"
           THEN /\ apiCall' = [call EXCEPT !.error = "Failed to process transfer"]
                /\ UNCHANGED <<pendingTransactions, balances>>
           ELSE /\ pendingTransactions' = r.pool
                /\ IF peers # {}
                   THEN /\ UNCHANGED balances
                        /\ apiCall' = [call EXCEPT !.outcome = "returned", !.value = tx.hash,
                                                    !.emitted = TRUE]
                   ELSE /\ balances' =
                             LET b1 == [balances EXCEPT ![fromAddress] = balance - (amount + fee)]
                             IN  [b1 EXCEPT ![toAddress] = b1[toAddress] + amount]
                        /\ apiCall' = [call EXCEPT !.outcome = "returned", !.value = tx.hash,
                                                    !.emitted = TRUE, !.direct = TRUE]
    /\ UNCHANGED <<dbByHeight, latestBlock, validators, txStore, currentHeight>>
    /\ UNCHANGED <<vmValidators, peers, cbVars, gossipVars, syncVars, peerChain, applyLog>>
    /\ UNCHANGED <<protoVars, extVars>>

\* ValidatorManager.registerValidator: throws below the minimum deposit.
RegisterValidator(vals, address, amount) ==
    IF Hundredths(amount) < minimumDeposit THEN vals
    ELSE MapSet(vals, address, StakeOrZero(vals, address) + amount)

\* ValidatorManager.removeValidator: throws for an unknown address.
RemoveValidator(vals, address) ==
    IF MapHas(vals, address) THEN MapDelete(vals, address) ELSE vals

\* P2PNode.handleValidatorMessage: a 'register' or 'withdraw' announcement
\* changes the map of the ValidatorManager; a throw is caught and logged.
HandleValidatorMessage(action, address, amount) ==
    /\ action = "register" => StakeOrZero(vmValidators, address) + amount <= MaxStake
    /\ vmValidators' = IF action = "register"
                       THEN RegisterValidator(vmValidators, address, amount)
                       ELSE RemoveValidator(vmValidators, address)
    /\ UNCHANGED <<ledgerVars, pendingTransactions, peers, cbVars, gossipVars, syncVars,
                   peerChain, applyLog>>
    /\ UNCHANGED <<protoVars, apiCall, extVars>>

\* ValidatorManager.selectNextValidator: the addresses it can return.
SelectNextValidator(vals) == DOMAIN vals

LedgerNext ==
    \/ \E tx \in LedgerTxs : SubmitTransaction(tx)
    \/ \E from \in WalletAddresses, ts \in BlockTimes : SendTokens(from, "Y", 30, 1, ts)
    \/ \E action \in {"register", "withdraw"}, amount \in {40, 90} :
          HandleValidatorMessage(action, RemoteValidator, amount)
    \/ \E block \in LedgerGossipBlocks : GossipReceive(block)
    \/ GossipVerified
    \/ CreateBlockBegin
    \/ CreateBlockSave

\* The file as it stands (pipe unbound); the peer plays no part here.
LedgerInit == Init /\ pipeDefined = FALSE /\ peerChain = <<GenesisBlock(2)>>

SpecLedger == LedgerInit /\ [][LedgerNext]_vars

----------------------------------------------------------------------------
(* Block production: createBlock as the block timer calls it, next to      *)
(* submissions and to blocks of a remote validator                         *)

\* The validatorAddress a node may have been started with: the validator
\* address of its wallet, and an address that is no validator.
ProducerAddresses == {LocalValidator, "Y"}

\* What Blockchain.initialize loads from the VALIDATORS record: nothing, or
\* the map ValidatorManager.save() wrote in an earlier run of the node
\* after an announcement of its own validator address.
LoadedValidators == {EmptyMap, MapSet(EmptyMap, LocalValidator, 90)}

\* Transactions submitted while the node produces: two that are valid on
\* the genesis balances and one that is not.
ProduceTxs == {TxTransfer, TxSelf, TxRegisterLow}

ProduceNext ==
    \/ \E tx \in ProduceTxs : SubmitTransaction(tx)
    \/ \E validatorAddress \in ProducerAddresses : CreateBlockSkips(validatorAddress)
    \/ \E validatorAddress \in ProducerAddresses : CreateBlockBuilds(validatorAddress)
    \/ CreateBlockSave
    \/ \E block \in LedgerGossipBlocks : GossipReceive(block)
    \/ GossipVerified

ProduceInit ==
    /\ dbByHeight = MapSet(EmptyMap, 0, GenesisBlock(1))
    /\ latestBlock = GenesisBlock(1)
    /\ balances = [a \in Addresses |-> IF a = InitialAddress THEN InitialSupply ELSE 0]
    /\ validators \in LoadedValidators
    /\ txStore = {GenesisBlock(1).transactions[1].hash}
    /\ currentHeight = 0
    /\ MemoryInit
    /\ peerChain = <<GenesisBlock(2)>>
    /\ ProtoInit /\ pipeDefined = FALSE
    /\ ExtInit /\ StoreRunning /\ CodecIdle /\ TokInit /\ LateInit

SpecProduce == ProduceInit /\ [][ProduceNext]_vars

----------------------------------------------------------------------------
(* The block timer: start() hands createBlock to setInterval, which calls  *)
(* it at every tick and does not wait for the promise of the call before.  *)
(* A pass is suspended while it awaits getLatestBlock, the balance reads   *)
(* of isTransactionValid, sign and saveBlock; nothing in start or          *)
(* createBlock records that a pass is running.                             *)

\* The lowest slot that holds no pass.
FreeSlot(p) == tpPc[p] = "idle" /\ \A q \in Passes : q < p => tpPc[q] # "idle"

\* The positions of the entries a suspended pass selected, after another
\* pass has filtered the entries at `removed` out of the pool.
Reindex(included, removed) ==
    {i - Cardinality({j \in removed : j < i}) : i \in included \ removed}

\* A tick of the timer: createBlock up to the signed block, whether or not
\* an earlier pass is still suspended.
TimerTick(p) ==
    /\ FreeSlot(p)
    /\ SkipReason(LocalValidator) = "none"
    /\ latestBlock.height < MaxHeight
    /\ LET valid == ValidTransactions(pendingTransactions, balances, validators,
                                      validatorMinDeposit)
       IN  \E ts \in BlockTimes :
                tpBlock' = [tpBlock EXCEPT ![p] =
                    SignBlock(BuildBlock(latestBlock, valid, LocalValidator, ts),
                              LocalValidator)]
    /\ tpValid' = [tpValid EXCEPT ![p] =
                      ValidIndices(pendingTransactions, balances, validators,
                                   validatorMinDeposit)]
    /\ tpPc' = [tpPc EXCEPT ![p] = "saving"]
    /\ UNCHANGED <<nodeVarsButExt, protoVars, toJSONReturns, depositVars, notLate,
                   ivVars, snVars, mrCall, gLast>>

\* The rest of the pass: saveBlock, the filter of the pool, the reward.
PassSave(p) ==
    /\ tpPc[p] = "saving"
    /\ Len(applyLog) < MaxApplied
    /\ LET n == SaveBlock(tpBlock[p], Node)
       IN  IF n.ok
           THEN /\ \E ts \in BlockTimes :
                     Install(ProcessValidatorRewards(tpBlock[p].validator, tpBlock[p], n, ts))
                /\ pendingTransactions' = RemoveIncluded(pendingTransactions, tpValid[p])
                /\ LogApplyLocal(tpBlock[p], TRUE)
                /\ tpValid' = [q \in Passes |->
                                 IF q = p THEN {} ELSE Reindex(tpValid[q], tpValid[p])]
           ELSE /\ Install(n)
                /\ UNCHANGED pendingTransactions
                /\ LogApplyLocal(tpBlock[p], FALSE)
                /\ tpValid' = [tpValid EXCEPT ![p] = {}]
    /\ tpPc' = [tpPc EXCEPT ![p] = "idle"]
    /\ tpBlock' = [tpBlock EXCEPT ![p] = NoBlock]
    /\ UNCHANGED <<vmValidators, peers, cbVars, gossipVars, syncVars, peerChain, apiCall>>
    /\ UNCHANGED <<protoVars, toJSONReturns, depositVars, notLate, ivVars, snVars, mrCall, gLast>>

TimerNext ==
    \/ \E tx \in ProduceTxs : SubmitTransaction(tx)
    \/ \E p \in Passes : TimerTick(p)
    \/ \E p \in Passes : PassSave(p)

\* A node started with its validator address, over the records of a run in
\* which that address became a validator.
TimerInit == ProduceInit /\ validators = MapSet(EmptyMap, LocalValidator, 90)

SpecTimer == TimerInit /\ [][TimerNext]_vars

----------------------------------------------------------------------------
(* Blockchain.isTransactionValid as a function of the transaction and of   *)
(* the ledger it reads: BALANCE_<from>, this.validators and                *)
(* this.validatorMinDeposit                                                *)

\* Transactions whose hash was computed over all their fields, one or more
\* of every type.
HashedTxs ==
    {TxTransfer, TxRegisterLow, TxWithdraw, TxMint,
     Rehash(CreateValidatorRegister("X", 60, 0, 1)),
     Rehash(CreateValidatorWithdraw("V", 0, 1)),
     Rehash(Transaction("REWARD", NoAddress, "V", 5, 0, 1)),
     Rehash(CreateWhitelist("X", "Y", "add", 1)),
     Rehash(CreateMessage("X", "Y", "hello", TRUE, 1)),
     Rehash(TransactionWith("MESSAGE", "X", "Y", 0, 1, << <<"message", "hello">> >>, 1))}

\* The arguments of the calls: those, and transactions fresh from a factory.
IsValidTxs == HashedTxs \cup FactoryTxs

\* Balances of the sender X around the amounts of these transactions.
SenderBalances == {0, 60, 200, 201, InitialSupply}

\* this.validatorMinDeposit: as configured, and after two yearly raises.
MinDeposits == {Hundredths(ValidatorMinDeposit), 6050}

IsValidCall(tx) ==
    /\ ivTx' = tx
    /\ ivOut' = IF IsTransactionValid(tx, balances, validators, validatorMinDeposit)
                THEN "true" ELSE "false"
    /\ UNCHANGED <<nodeVarsButExt, protoVars, toJSONReturns, depositVars, notLate,
                   passVars, snVars, mrCall, gLast>>

IsValidNext == \E tx \in IsValidTxs : IsValidCall(tx)

IsValidInit ==
    /\ dbByHeight = MapSet(EmptyMap, 0, GenesisBlock(1))
    /\ latestBlock = GenesisBlock(1)
    /\ \E b \in SenderBalances :
          balances = [a \in Addresses |-> IF a = InitialAddress THEN b ELSE 0]
    /\ validators \in LoadedValidators
    /\ txStore = {GenesisBlock(1).transactions[1].hash}
    /\ currentHeight = 0
    /\ MemoryInit
    /\ peerChain = <<GenesisBlock(2)>>
    /\ ProtoInit /\ pipeDefined = FALSE
    /\ toJSONReturns \in BOOLEAN
    /\ validatorMinDeposit \in MinDeposits
    /\ minimumDeposit = Hundredths(ValidatorMinDeposit)
    /\ lastYearlyUpdate = 0
    /\ now = 0
    /\ MsgInit /\ StoreRunning /\ CodecIdle /\ TokInit /\ LateInit

SpecIsValid == IsValidInit /\ [][IsValidNext]_vars

----------------------------------------------------------------------------
(* ValidatorManager.selectNextValidator over the Map of the manager.  A    *)
(* Map is walked in insertion order; Math.random() returns a multiple of   *)
(* 1/Grid in [0, 1).                                                       *)

Grid == 10            \* Math.random() takes the values 0/Grid .. (Grid-1)/Grid

Randoms == 0..(Grid - 1)

\* Map.set on the entries: the value of a known key is replaced in place, a
\* new key goes to the end.
EntriesSet(entries, address, stake) ==
    IF \E i \in 1..Len(entries) : entries[i][1] = address
    THEN [i \in 1..Len(entries) |->
             IF entries[i][1] = address THEN <<address, stake>> ELSE entries[i]]
    ELSE Append(entries, <<address, stake>>)

\* cumulativeStake after the first i entries.
RECURSIVE CumulativeStake(_, _)
CumulativeStake(entries, i) ==
    IF i = 0 THEN 0 ELSE CumulativeStake(entries, i - 1) + entries[i][2]

\* selectNextValidator with Math.random() = k/Grid: null for an empty map;
\* random = (k/Grid) * totalStake; the first entry with
\* random <= cumulativeStake; else the first entry.
SelectNextValidatorAt(entries, k) ==
    IF entries = << >> THEN NoAddress
    ELSE LET totalStake == CumulativeStake(entries, Len(entries))
             hits == {i \in 1..Len(entries) :
                         k * totalStake <= CumulativeStake(entries, i) * Grid}
         IN  IF hits = {} THEN entries[1][1]
             ELSE entries[CHOOSE i \in hits : \A j \in hits : i <= j][1]

\* registerValidator(address, amount) on the manager, by an announcement.
SnRegister(address, amount) ==
    /\ Hundredths(amount) >= minimumDeposit
    /\ StakeOrZero(vmValidators, address) + amount <= MaxStake
    /\ vmValidators' = RegisterValidator(vmValidators, address, amount)
    /\ snEntries' = EntriesSet(snEntries, address,
                               StakeOrZero(vmValidators, address) + amount)
    /\ snOut' = "none"
    /\ UNCHANGED snRandom
    /\ UNCHANGED <<ledgerVars, pendingTransactions, peers, cbVars, gossipVars, syncVars,
                   peerChain, applyLog, apiCall>>
    /\ UNCHANGED <<protoVars, toJSONReturns, depositVars, notLate, passVars, ivVars, mrCall, gLast>>

SelectNextValidatorCall(k) ==
    /\ snRandom' = k
    /\ snOut' = SelectNextValidatorAt(snEntries, k)
    /\ UNCHANGED snEntries
    /\ UNCHANGED <<nodeVarsButExt, protoVars, toJSONReturns, depositVars, notLate,
                   passVars, ivVars, mrCall, gLast>>

SelectNext ==
    \/ \E address \in {RemoteValidator, LocalValidator}, amount \in {50} :
          SnRegister(address, amount)
    \/ \E k \in Randoms : SelectNextValidatorCall(k)

SpecSelect == LedgerInit /\ [][SelectNext]_vars

----------------------------------------------------------------------------
(* The life of a validator entry of Blockchain.validators: a node that is  *)
(* a validator withdraws, and registrations of its address arrive in       *)
(* blocks of a remote validator                                            *)

\* The withdrawal of the local validator, and registrations of its address
\* at and below the minimum deposit.
TxWithdrawLocal == Rehash(CreateValidatorWithdraw(LocalValidator, 1, 1))
TxReRegister == Rehash(CreateValidatorRegister(LocalValidator, 60, 0, 2))
TxReRegisterLow == Rehash(CreateValidatorRegister(LocalValidator, 40, 0, 2))

LifecycleTxs == {TxWithdrawLocal, TxTransfer}

LifecycleGossipBlocks ==
    IF latestBlock.height < MaxHeight
    THEN {SignBlock(Block(latestBlock.height + 1, latestBlock.hash, txs, RemoteValidator, ts),
                    RemoteValidator) :
             txs \in {<<TxReRegister>>, <<TxReRegisterLow>>, <<TxWithdrawLocal>>},
             ts \in BlockTimes}
    ELSE {}

LifecycleNext ==
    \/ \E tx \in LifecycleTxs : SubmitTransaction(tx)
    \/ CreateBlockSkips(LocalValidator)
    \/ CreateBlockBuilds(LocalValidator)
    \/ CreateBlockSave
    \/ \E block \in LifecycleGossipBlocks : GossipReceive(block)
    \/ GossipVerified

SpecLifecycle == TimerInit /\ [][LifecycleNext]_vars

----------------------------------------------------------------------------
(* The monthly reward passes: Blockchain.calculateMonthlyValidatorRewards  *)
(* over Blockchain.validators, and ValidatorManager.processMonthlyRewards  *)
(* over the map of the manager.  No code of the repository calls either.   *)

\* config.blockchain.validatorAPY is 0.17, written in hundredths; the rate
\* of a month is validatorAPY / 12.
ApyPercent == 17
MonthsPerYear == 12

\* A pass that credits the rate of the whole year.
MonthlyReward_WholeYear(stake) == (stake * ApyPercent) \div 100

\* stakedAmount * monthlyRate.  The stakes of this section are multiples of
\* 1200 DOU, for which the reward is a whole number of DOU.
MonthlyReward(stake) == (stake * ApyPercent) \div (100 * MonthsPerYear)

MonthlyData == << <<"type", "VALIDATOR_MONTHLY_REWARD">> >>

\* new Transaction('REWARD', null, address, reward, 0, {...}) with its hash
\* computed again.
MonthlyRewardTx(address, stake, timestamp) ==
    Rehash(TransactionWith("REWARD", NoAddress, address, MonthlyReward(stake), 0,
                           MonthlyData, timestamp))

\* The object processMonthlyRewards builds for one validator.
MonthlyRewardObject(address, stake) ==
    [type |-> "REWARD", to |-> address, amount |-> MonthlyReward(stake),
     data |-> MonthlyData]

\* The orders in which a Map with these keys can be walked.
WalkOrders(keys) ==
    {order \in [1..Cardinality(keys) -> keys] :
        \A i, j \in 1..Cardinality(keys) : i # j => order[i] # order[j]}

\* calculateMonthlyValidatorRewards: one addTransaction per entry of
\* Blockchain.validators; the function has no await.
CalculateMonthlyValidatorRewards ==
    /\ Len(pendingTransactions) + Cardinality(DOMAIN validators) <= MaxPending
    /\ \E order \in WalkOrders(DOMAIN validators), ts \in BlockTimes :
          pendingTransactions' = pendingTransactions \o
              [i \in 1..Len(order) |-> MonthlyRewardTx(order[i], validators[order[i]], ts)]
    /\ mrCall' = [pass |-> "blockchain", poolBefore |-> pendingTransactions,
                  returned |-> << >>]
    /\ UNCHANGED <<ledgerVars, vmValidators, peers, cbVars, gossipVars, syncVars,
                   peerChain, applyLog, apiCall>>
    /\ UNCHANGED <<protoVars, toJSONReturns, depositVars, notLate, passVars, ivVars, snVars, gLast>>

\* processMonthlyRewards: builds one object per entry of the manager's map
\* and returns the array.
ProcessMonthlyRewards ==
    /\ \E order \in WalkOrders(DOMAIN vmValidators) :
          mrCall' = [pass |-> "manager", poolBefore |-> pendingTransactions,
                     returned |-> [i \in 1..Len(order) |->
                         MonthlyRewardObject(order[i], vmValidators[order[i]])]]
    /\ UNCHANGED <<nodeVarsButExt, protoVars, toJSONReturns, depositVars, notLate,
                   passVars, ivVars, snVars, gLast>>

\* The maps a node holds when a pass runs: the two maps are kept apart.
MonthlyMaps ==
    {EmptyMap, MapSet(EmptyMap, LocalValidator, 1200),
     MapSet(MapSet(EmptyMap, LocalValidator, 1200), RemoteValidator, 2400)}

MonthlyNext ==
    \/ CalculateMonthlyValidatorRewards
    \/ ProcessMonthlyRewards
    \/ SubmitTransaction(TxTransfer)
    \/ CreateBlockSkips(LocalValidator)
    \/ CreateBlockBuilds(LocalValidator)
    \/ CreateBlockSave

MonthlyInit ==
    /\ dbByHeight = MapSet(EmptyMap, 0, GenesisBlock(1))
    /\ latestBlock = GenesisBlock(1)
    /\ balances = [a \in Addresses |-> IF a = InitialAddress THEN InitialSupply ELSE 0]
    /\ validators \in MonthlyMaps
    /\ txStore = {GenesisBlock(1).transactions[1].hash}
    /\ currentHeight = 0
    /\ pendingTransactions = << >>
    /\ vmValidators \in MonthlyMaps
    /\ peers = {}
    /\ cbPc = "idle" /\ cbBlock = NoBlock /\ cbValid = {} /\ cbCall = NoCbCall
    /\ gPc = "idle" /\ gBlock = NoBlock
    /\ syPc = "idle" /\ syPeerHeight = 0 /\ syOurHeight = 0 /\ syI = 0 /\ syMark = 0
    /\ syEntries = << >>
    /\ peerChain = <<GenesisBlock(2)>>
    /\ applyLog = << >>
    /\ syncLog = << >>
    /\ apiCall = NoCall
    /\ ProtoInit /\ pipeDefined = FALSE
    /\ ExtInit /\ StoreRunning /\ CodecIdle /\ TokInit /\ LateInit

SpecMonthly == MonthlyInit /\ [][MonthlyNext]_vars

----------------------------------------------------------------------------
(* P2PNode.handleBlockMessage with a record of the message it handled,     *)
(* next to the peer and the sync                                           *)

\* handleBlockMessage up to its first return or to the signature check.
HandleBlockMessage(block) ==
    /\ gPc = "idle"
    /\ LET check == GossipCheck(block, latestBlock)
       IN  CASE check = "verify" ->
                  /\ gPc' = "verifying"
                  /\ gBlock' = block
                  /\ UNCHANGED syncVars
             [] check = "behind" /\ SyncBlockchainStarts ->
                  /\ SyncStarts
                  /\ UNCHANGED <<gPc, gBlock>>
             [] OTHER ->
                  UNCHANGED <<gPc, gBlock, syncVars>>
    /\ gLast' = [n |-> 1 - gLast.n, height |-> block.height,
                 latestHeight |-> latestBlock.height,
                 started |-> GossipCheck(block, latestBlock) = "behind"
                             /\ SyncBlockchainStarts]
    /\ UNCHANGED <<ledgerVars, pendingTransactions, vmValidators, peers, cbVars,
                   peerChain, applyLog, apiCall>>
    /\ UNCHANGED <<protoVars, toJSONReturns, depositVars, notLate, passVars, ivVars,
                   snVars, mrCall>>

GossipNext ==
    \/ \E block \in GossipBlocks : HandleBlockMessage(block)
    \/ GossipVerified
    \/ PeerProduce
    \/ PeerConnect
    \/ PeerDisconnect
    \/ SyncHeightResponse
    \/ SyncRequestFails
    \/ SyncBlockResponse
    \/ SyncValidatorsResponse

SpecGossip == Init /\ [][GossipNext]_vars

----------------------------------------------------------------------------
(* The pending pool under repeated deliveries: addTransaction from the     *)
(* API, P2PNode.handleTransactionMessage from the transactions topic,      *)
(* the block timer and blocks of a remote validator                        *)

\* Transactions the transactions topic delivers, each any number of times.
DeliveredTxs == {TxTransfer, TxFund}

\* handleTransactionMessage: parse; return if TX_<hash> is in the store;
\* return on a hash mismatch; else addTransaction.
HandleTransactionMessage(sent) ==
    /\ Len(pendingTransactions) < MaxPending
    /\ LET tx == TxFromJSON(TxToJSON(sent), 1)
       IN  IF tx.hash \in txStore \/ ~VerifyHash(tx)
           THEN UNCHANGED <<pendingTransactions, apiCall>>
           ELSE LET r == AddTransaction(tx, pendingTransactions)
                IN  /\ pendingTransactions' = r.pool
                    /\ apiCall' = [op |-> "addTransaction", tx |-> tx,
                                   outcome |-> r.outcome, error |-> r.error,
                                   value |-> r.value, emitted |-> r.emitted,
                                   direct |-> FALSE]
    /\ UNCHANGED <<ledgerVars, vmValidators, peers, cbVars, gossipVars, syncVars,
                   peerChain, applyLog>>
    /\ UNCHANGED <<protoVars, extVars>>

\* Blocks of the remote validator on the head of this node that carry a
\* transaction the node may also hold in its pool.
PoolGossipBlocks ==
    IF latestBlock.height < MaxHeight
    THEN {SignBlock(Block(latestBlock.height + 1, latestBlock.hash, <<TxTransfer>>,
                          RemoteValidator, ts), RemoteValidator) : ts \in BlockTimes}
    ELSE {}

PoolNext ==
    \/ \E tx \in SubmittedTxs : SubmitTransaction(tx)
    \/ \E sent \in DeliveredTxs : HandleTransactionMessage(sent)
    \/ CreateBlockSkips(LocalValidator)
    \/ CreateBlockBuilds(LocalValidator)
    \/ CreateBlockSave
    \/ \E block \in PoolGossipBlocks : GossipReceive(block)
    \/ GossipVerified

SpecPool == TimerInit /\ [][PoolNext]_vars

----------------------------------------------------------------------------
(* The height of the node over longer runs: the blocks of the peer reach  *)
(* the node by gossip and by sync, next to its own block timer            *)

MaxSaves == 3         \* saveBlock runs at most this many times in these runs

\* The blocks of the chain of the peer, as the blocks topic delivers them.
PeerGossipBlocks == {peerChain[i] : i \in 1..Len(peerChain)}

HeightNext ==
    \/ \E tx \in SubmittedTxs : SubmitTransaction(tx)
    \/ CreateBlockBegin
    \/ CreateBlockSaveWithin(MaxSaves)
    \/ PeerProduce
    \/ PeerConnect
    \/ PeerDisconnect
    \/ SyncHeightResponse
    \/ SyncRequestFails
    \/ SyncBlockResponseWithin(MaxSaves)
    \/ SyncValidatorsResponse
    \/ \E block \in PeerGossipBlocks : GossipReceive(block)
    \/ GossipVerifiedWithin(MaxSaves)

SpecHeight == Init /\ [][HeightNext]_vars

----------------------------------------------------------------------------
(* Blockchain.initialize over the store a node process finds when it       *)
(* starts: the process runs, stops, and is started again over the records  *)
(* the last one left, which may have been damaged in between.              *)

MaxStarts == 3        \* initialize() is called at most this many times

\* What db.get('LATEST_BLOCK') does:
\*   "absent"  - it throws NotFoundError (no such key);
\*   "block"   - it returns the text of latestBlock;
\*   "empty"   - it returns a falsy value (the record holds an empty string);
\*   "garbled" - the value is not the text of a block (db.get or JSON.parse
\*               or Block.fromJSON throws something other than NotFoundError).
DamagedRecords == {"empty", "garbled"}

\* initialize builds the genesis block when the key is missing and when the
\* value is falsy.
NeedsGenesis(record) == record \in {"absent", "empty"}

\* The records createGenesisBlock writes: the block under its height and as
\* LATEST_BLOCK, the balance of the initial address (a put, not an
\* addition), the transaction record.
CreateGenesisBlock(timestamp) ==
    /\ dbByHeight' = MapSet(dbByHeight, 0, GenesisBlock(timestamp))
    /\ latestBlock' = GenesisBlock(timestamp)
    /\ balances' = [balances EXCEPT ![InitialAddress] = InitialSupply]
    /\ txStore' = txStore \cup {GenesisBlock(timestamp).transactions[1].hash}
    /\ currentHeight' = 0
    /\ latestRecord' = "block"

\* A process starts: the constructors, then Blockchain.initialize.
Initialize ==
    /\ ~running
    /\ starts < MaxStarts
    /\ starts' = starts + 1
    /\ IF latestRecord = "block"
       THEN /\ currentHeight' = latestBlock.height
            /\ initResult' = "loaded"
            /\ running' = TRUE
            /\ UNCHANGED <<dbByHeight, latestBlock, balances, txStore, latestRecord>>
       ELSE IF NeedsGenesis(latestRecord)
       THEN /\ \E timestamp \in GenesisTimes : CreateGenesisBlock(timestamp)
            /\ initResult' = "genesis"
            /\ running' = TRUE
       ELSE /\ initResult' = "failed"
            /\ running' = FALSE
            /\ UNCHANGED <<dbByHeight, latestBlock, balances, txStore, currentHeight,
                           latestRecord>>
    /\ UNCHANGED <<validators, pendingTransactions, vmValidators, peers, cbVars, gossipVars,
                   syncVars, peerChain, applyLog, apiCall>>
    /\ UNCHANGED <<toJSONReturns, depositVars, protoVars, notStore>>

\* The process exits: the records stay, the fields of its objects are gone
\* (the next constructor sets currentHeight to 0 and the pool to []).
Stop ==
    /\ running
    /\ running' = FALSE
    /\ currentHeight' = 0
    /\ pendingTransactions' = << >>
    /\ gPc' = "idle" /\ gBlock' = NoBlock
    /\ UNCHANGED <<dbByHeight, latestBlock, balances, validators, txStore>>
    /\ UNCHANGED <<vmValidators, peers, cbVars, syncVars, peerChain, applyLog, apiCall>>
    /\ UNCHANGED <<latestRecord, initResult, starts>>
    /\ UNCHANGED <<toJSONReturns, depositVars, protoVars, notStore>>

\* The LATEST_BLOCK record is damaged while no process runs.
Damage(record) ==
    /\ ~running
    /\ latestRecord = "block"
    /\ latestRecord' = record
    /\ UNCHANGED <<running, initResult, starts>>
    /\ UNCHANGED <<ledgerVars, pendingTransactions, vmValidators, peers, cbVars, gossipVars,
                   syncVars, peerChain, applyLog, apiCall>>
    /\ UNCHANGED <<toJSONReturns, depositVars, protoVars, notStore>>

StoreNext ==
    \/ Initialize
    \/ Stop
    \/ \E record \in DamagedRecords : Damage(record)
    \/ running /\ \E tx \in LedgerTxs : SubmitTransaction(tx)
    \/ running /\ \E block \in LedgerGossipBlocks : GossipReceive(block)
    \/ running /\ GossipVerified

\* No process yet, over an empty store.
StoreInit ==
    /\ dbByHeight = EmptyMap
    /\ latestBlock = NoBlock
    /\ balances = [a \in Addresses |-> 0]
    /\ validators = EmptyMap
    /\ txStore = {}
    /\ currentHeight = 0
    /\ MemoryInit
    /\ peerChain = <<GenesisBlock(2)>>
    /\ ProtoInit /\ pipeDefined = FALSE
    /\ ExtInit /\ CodecIdle /\ TokInit /\ LateInit
    /\ running = FALSE
    /\ latestRecord = "absent"
    /\ initResult = "none"
    /\ starts = 0

SpecStore == StoreInit /\ [][StoreNext]_vars

----------------------------------------------------------------------------
(* The validator set: the yearly raise of the minimum deposit, in          *)
(* Blockchain and in ValidatorManager, and the validator step of the sync  *)

MaxMinDeposit == 56   \* no raise takes a minimum deposit above this (in DOU)
MaxYears == 1         \* the clock stops after this many years

\* this.validatorMinDeposit *= 1.1, and
\* this.minimumDeposit *= (1 + config.blockchain.validatorDepositIncreaseRate).
\* The doubles are a little above the decimal values (50 * 1.1 is
\* 55.00000000000001); no stake of the model equals one of them.
RaiseDeposit(deposit) == (deposit * 11) \div 10

\* const oneYear = 365 * 24 * 60 * 60 * 1000, in years.
OneYear == 1

\* The entries of a validator map whose stake is below a minimum deposit.
BelowDeposit(vals, deposit) == {a \in DOMAIN vals : Hundredths(vals[a]) < deposit}

\* A raise that removes the validators below the new minimum and keeps
\* their stake.
EvictBelow_NoRefund(vals, bal, deposit) ==
    [vals |-> [a \in DOMAIN vals \ BelowDeposit(vals, deposit) |-> vals[a]],
     bal |-> bal]

\* The loop of updateValidatorMinDeposit: every validator below the minimum
\* gets its stake added to its balance and is deleted from the map.
EvictBelow(vals, bal, deposit) ==
    [vals |-> [a \in DOMAIN vals \ BelowDeposit(vals, deposit) |-> vals[a]],
     bal |-> [a \in DOMAIN bal |->
                IF a \in BelowDeposit(vals, deposit) THEN bal[a] + vals[a] ELSE bal[a]]]

\* Blockchain.updateValidatorMinDeposit
UpdateValidatorMinDeposit ==
    /\ RaiseDeposit(validatorMinDeposit) <= Hundredths(MaxMinDeposit)
    /\ validatorMinDeposit' = RaiseDeposit(validatorMinDeposit)
    /\ LET r == EvictBelow(validators, balances, RaiseDeposit(validatorMinDeposit))
       IN  /\ validators' = r.vals
           /\ balances' = r.bal
    /\ UNCHANGED <<dbByHeight, latestBlock, txStore, currentHeight>>
    /\ UNCHANGED <<pendingTransactions, vmValidators, peers, cbVars, gossipVars, syncVars,
                   peerChain, applyLog, apiCall>>
    /\ UNCHANGED <<toJSONReturns, minimumDeposit, lastYearlyUpdate, now, moreVars>>
    /\ UNCHANGED protoVars

\* Time passes.
Tick ==
    /\ now < MaxYears
    /\ now' = now + 1
    /\ UNCHANGED <<ledgerVars, pendingTransactions, vmValidators, peers, cbVars, gossipVars,
                   syncVars, peerChain, applyLog, apiCall>>
    /\ UNCHANGED <<toJSONReturns, validatorMinDeposit, minimumDeposit, lastYearlyUpdate,
                   moreVars>>
    /\ UNCHANGED protoVars

\* ValidatorManager.updateMinimumDeposit: once a year has passed since the
\* last update the minimum is raised; the map is not touched.  (It returns
\* false and changes nothing before that.)
UpdateMinimumDeposit ==
    /\ now - lastYearlyUpdate >= OneYear
    /\ RaiseDeposit(minimumDeposit) <= Hundredths(MaxMinDeposit)
    /\ minimumDeposit' = RaiseDeposit(minimumDeposit)
    /\ lastYearlyUpdate' = now
    /\ UNCHANGED <<ledgerVars, pendingTransactions, vmValidators, peers, cbVars, gossipVars,
                   syncVars, peerChain, applyLog, apiCall>>
    /\ UNCHANGED <<toJSONReturns, validatorMinDeposit, now, moreVars>>
    /\ UNCHANGED protoVars

\* ValidatorManager.checkMinimumDeposit: deletes the validators below the
\* minimum and returns them; it writes no balance.
CheckMinimumDeposit ==
    /\ vmValidators' =
          [a \in DOMAIN vmValidators \ BelowDeposit(vmValidators, minimumDeposit) |->
              vmValidators[a]]
    /\ UNCHANGED <<ledgerVars, pendingTransactions, peers, cbVars, gossipVars,
                   syncVars, peerChain, applyLog, apiCall>>
    /\ UNCHANGED extVars
    /\ UNCHANGED protoVars

\* The validatorsResponse.validators a peer may send: the entries, in the
\* order of Object.entries.
ValidatorResponses ==
    {PeerValidators,
     << <<"W", 40>>, <<"V", 60>> >>,
     << <<"Y", 70>> >>,
     << >>}

\* Stakes announced over the validators topic.
AnnouncedStakes == {40, 50, 90}

ValidatorsNext ==
    \/ \E action \in {"register", "withdraw"}, amount \in AnnouncedStakes :
          HandleValidatorMessage(action, RemoteValidator, amount)
    \/ \E block \in LedgerGossipBlocks : GossipReceive(block)
    \/ GossipVerified
    \/ UpdateValidatorMinDeposit
    \/ Tick
    \/ UpdateMinimumDeposit
    \/ CheckMinimumDeposit
    \/ PeerConnect
    \/ PeerDisconnect
    \/ SyncHeightResponse
    \/ SyncRequestFails
    \/ \E entries \in ValidatorResponses : SyncValidatorsFrom(entries)

\* The peer stays at its genesis block, so a sync asks for no block.
ValidatorsInit == Init /\ pipeDefined = FALSE /\ peerChain = <<GenesisBlock(2)>>

SpecValidators == ValidatorsInit /\ [][ValidatorsNext]_vars

----------------------------------------------------------------------------
(* Properties of block application *)

\* The saveBlock calls made since the running sync read the local height.
SinceMark == {i \in 1..Len(applyLog) : i > syMark}

OnlySyncSavedSinceMark == \A i \in SinceMark : applyLog[i].origin = "sync"

----------------------------------------------------------------------------
(* Properties of syncWithPeer *)

\* The positions of the block requests in the sync's history, and of its saves.
BlockRequests == {k \in 1..Len(syncLog) : syncLog[k].ev = "request" /\ syncLog[k].what = "block"}
BlockSaves == {k \in 1..Len(syncLog) : syncLog[k].ev \in {"applied", "rejected"}}

\* The blocks saved by the running sync, in order.
SyncSaved == SelectSeq(SubSeq(applyLog, syMark + 1, Len(applyLog)),
                       LAMBDA e : e.origin = "sync")

C5_WitnessRejected ==
    /\ syPc = "failed"
    /\ syncLog[Len(syncLog)].ev = "rejected"

----------------------------------------------------------------------------
(* Properties of the protocol *)

\* C8: once the timer of a request has fired, the call has failed with the
\* timeout error; it does not go on waiting.
C8_TimeoutFailsCall ==
    rqId \in timedOut => (rqPc = "thrown" /\ rqResult = "timeout")

\* C9: the table has an entry only for the request in flight, never for one
\* that has returned, thrown or timed out; and a response that arrives after
\* the timeout settles nothing.
C9_TableOnlyInFlight ==
    /\ [](\A id \in pendingRequests :
             /\ id = rqId
             /\ rqPc \in {"dialing", "reading"}
             /\ id \notin timedOut)
    /\ [][\A id \in timedOut : promise'[id] = promise[id]]_vars

\* Witness of C9: a request that timed out and has ended, its entry gone.
C9_Witness ==
    /\ rqId \in timedOut
    /\ rqPc = "thrown"
    /\ rqId \notin pendingRequests

\* C10: a responder handler that has run has written exactly one response and
\* closed the stream; when computing the answer failed, that response is the
\* error-tagged one.
C10_OneResponseThenClose ==
    stream.handled =>
        /\ stream.closed
        /\ Len(stream.responses) = 1
        /\ stream.failed => stream.responses[1] = ErrorResponse(stream.kind)

----------------------------------------------------------------------------
(* Properties of transactions and of the pending pool *)

\* The last call was handed a transaction straight from a factory.
CallWithFactoryTx ==
    \/ apiCall.op = "addTransaction" /\ apiCall.tx \in FactoryTxs
    \/ apiCall.op = "sendTokens"

\* C11: a transaction built by the constructor or a factory verifies its own
\* hash, so submitting it unmodified never fails with the hash error.
C11_FactoryTransactionVerifies ==
    CallWithFactoryTx =>
        /\ VerifyHash(apiCall.tx)
        /\ apiCall.error \notin {"Invalid transaction hash", "Failed to process transfer"}

\* C12: addTransaction with a transaction whose hash differs from its
\* recomputation throws the hash error, leaves the pool as it was and emits
\* nothing; otherwise the pool grows by exactly that transaction, the event is
\* emitted and the transaction's hash is returned.
C12_SubmitChecksHash ==
    [][((apiCall' # apiCall \/ Len(pendingTransactions') > Len(pendingTransactions))
        /\ apiCall'.op = "addTransaction")
       => IF VerifyHash(apiCall'.tx)
          THEN /\ pendingTransactions' = Append(pendingTransactions, apiCall'.tx)
               /\ apiCall'.outcome = "returned"
               /\ apiCall'.value = apiCall'.tx.hash
               /\ apiCall'.emitted
          ELSE /\ pendingTransactions' = pendingTransactions
               /\ apiCall'.outcome = "thrown"
               /\ apiCall'.error = "Invalid transaction hash"
               /\ ~apiCall'.emitted]_vars

\* Witness of C12: a rejected submission that followed an accepted one.
C12_Witness ==
    /\ apiCall.op = "addTransaction"
    /\ apiCall.outcome = "thrown"
    /\ pendingTransactions # << >>

----------------------------------------------------------------------------
(* Properties of the ledger *)

RECURSIVE SumBalances(_, _)
SumBalances(bal, addresses) ==
    IF addresses = {} THEN 0
    ELSE LET a == CHOOSE x \in addresses : TRUE
         IN  bal[a] + SumBalances(bal, addresses \ {a})

RECURSIVE MintedAmount(_)
MintedAmount(txs) ==
    IF txs = << >> THEN 0
    ELSE (IF Head(txs).type \in {"MINT", "REWARD"} THEN Head(txs).amount ELSE 0)
         + MintedAmount(Tail(txs))

ReceiverApply(block, bal, vals) ==
    SaveBlock(block, [byHeight |-> EmptyMap, latest |-> block, bal |-> bal,
                      vals |-> vals, txs |-> {}, height |-> block.height - 1,
                      ok |-> TRUE, json |-> toJSONReturns])

TimesApplied(h) ==
    Cardinality(UNION {
        {<<i, k>> : k \in {j \in 1..Len(applyLog[i].block.transactions) :
                              applyLog[i].ok /\ applyLog[i].block.transactions[j].hash = h}} :
        i \in 1..Len(applyLog)})

InPool(h) == \E k \in 1..Len(pendingTransactions) : pendingTransactions[k].hash = h

\* C17: a transfer issued through sendTokens by a funded wallet address is in
\* the pool or was applied in exactly one block, and sendTokens itself wrote
\* no balance.
C17_SendTokensAppliedOnce ==
    (apiCall.op = "sendTokens" /\ apiCall.error # "Insufficient balance") =>
        /\ ~apiCall.direct
        /\ InPool(apiCall.tx.hash) \/ TimesApplied(apiCall.tx.hash) = 1

----------------------------------------------------------------------------
(* Properties of the validator maps *)

C19_OneValidatorMap ==
    validators = vmValidators

\* The VALIDATOR_REGISTER transactions of the blocks applied so far.
RegistrationsApplied ==
    UNION {
        {<<i, k>> : k \in {j \in 1..Len(applyLog[i].block.transactions) :
                              /\ applyLog[i].ok
                              /\ applyLog[i].block.transactions[j].type = "VALIDATOR_REGISTER"}} :
        i \in 1..Len(applyLog)}

----------------------------------------------------------------------------
(* Properties of the validator set *)

\* C21: when a minimum deposit is raised, every validator whose stake is
\* below the new minimum leaves the validator map and its balance grows by
\* exactly its stake; the validators at or above the new minimum keep their
\* entry and stake, and no other balance changes.  This is asked of the raise
\* of Blockchain (its map and minimum) and of the raise of ValidatorManager
\* (its map and minimum).
C21_RaiseEvictsBelowMinimum ==
    [][/\ validatorMinDeposit' # validatorMinDeposit =>
            /\ validators' = EvictBelow(validators, balances, validatorMinDeposit').vals
            /\ balances' = EvictBelow(validators, balances, validatorMinDeposit').bal
       /\ minimumDeposit' # minimumDeposit =>
            /\ vmValidators' = EvictBelow(vmValidators, balances, minimumDeposit').vals
            /\ balances' = EvictBelow(vmValidators, balances, minimumDeposit').bal]_vars

----------------------------------------------------------------------------
(* Properties of the message rate limiter *)

\* The MESSAGE transactions of the pool.
MessagesIn(pool) == SelectSeq(pool, LAMBDA tx : tx.type = "MESSAGE")

\* C23: within a window the counters of a sender never pass 200 in total nor
\* 30 to one recipient; a sendMessage call of a wallet address that passed
\* the check of the limits is admitted (it returns, one MESSAGE transaction
\* joins the pool and the counters of the sender grow by one); a call that
\* fails on a limit adds nothing to the pool or the counters; after a reset
\* all counters are zero.
C23_RateLimiter ==
    [][/\ \A a \in WalletAddresses :
            /\ hourly'[a].total <= MaxMessagesPerHour
            /\ \A to \in Recipients :
                  hourly'[a].perAddress[to] <= MaxMessagesToAddressPerHour
       /\ \A c \in Callers :
            /\ (smCalls[c].pc = "checked" /\ smCalls'[c].pc # "checked") =>
                  /\ smCalls'[c].pc = "returned"
                  /\ Len(MessagesIn(pendingTransactions')) =
                        Len(MessagesIn(pendingTransactions)) + 1
                  /\ hourly' = UpdateMessageCount(hourly, smCalls[c].from, smCalls[c].to)
            /\ (smCalls[c].pc # "checked" /\ smCalls'[c].pc = "thrown"
                    /\ smCalls'[c].error \in {"Message rate limit exceeded",
                                               "Message rate limit to address exceeded"}) =>
                  UNCHANGED <<pendingTransactions, hourly>>
       /\ resets' # resets => \A a \in WalletAddresses : hourly'[a] = NoCounts]_vars

----------------------------------------------------------------------------
(* Properties of initialize *)

\* C24: initialize() on an empty store creates exactly one genesis block, at
\* height 0 with the zero previousHash, and credits the initial address with
\* the initial supply and no other address; on a store that has a latest
\* block it loads the height of that block and changes no block and no
\* balance; on a store whose latest-block record is not the text of a block
\* it fails and creates no genesis block.
C24_Initialize ==
    [][starts' # starts =>
        /\ latestRecord = "absent" =>
              /\ initResult' = "genesis"
              /\ DOMAIN dbByHeight' = {0}
              /\ dbByHeight'[0].height = 0
              /\ dbByHeight'[0].previousHash = ZeroHash
              /\ latestBlock' = dbByHeight'[0]
              /\ currentHeight' = 0
              /\ balances' = [a \in Addresses |->
                                IF a = InitialAddress THEN InitialSupply ELSE 0]
        /\ latestRecord = "block" =>
              /\ initResult' = "loaded"
              /\ currentHeight' = latestBlock.height
              /\ UNCHANGED <<dbByHeight, latestBlock, balances, txStore>>
        /\ latestRecord \in DamagedRecords =>
              /\ initResult' = "failed"
              /\ ~running'
              /\ UNCHANGED <<dbByHeight, latestBlock, balances, txStore>>]_vars

----------------------------------------------------------------------------
(* Properties of serialization *)

\* C25: for every transaction tx, Transaction.fromJSON(tx.toJSON()) has the
\* stored hash of tx, and recomputing the hash of the deserialized
\* transaction gives what recomputing the hash of tx gives.
C25_TransactionRoundTrip ==
    cTxPc = "back" =>
        /\ cTxBack.hash = cTx.hash
        /\ CalculateTxHash(cTxBack) = CalculateTxHash(cTx)

\* A message transaction with its rewards assigned, whose stored hash is
\* not the recomputed one, has gone through the round trip.
C25_Witness ==
    /\ cTxPc = "back"
    /\ cTx.type = "MESSAGE"
    /\ cTx.senderReward = SendReward
    /\ cTx.hash # CalculateTxHash(cTx)
    /\ cTx.signature # NoSignature

\* C26: the hash of a block depends only on height, previousHash,
\* timestamp, transactions and validator: sign() leaves it unchanged; and
\* Block.fromJSON(block.toJSON()) is a block with the same hash, height,
\* previousHash, validator, timestamp and signature.
C26_BlockHashAndRoundTrip ==
    /\ cBlock.hash = cBlockHash0
    /\ cBlockPc # "none" => CalculateBlockHash(cBlock) = cBlockHash0
    /\ cBlockPc # "thrown"
    /\ cBlockPc = "back" =>
          /\ cBlockBack.hash = cBlock.hash
          /\ cBlockBack.height = cBlock.height
          /\ cBlockBack.previousHash = cBlock.previousHash
          /\ cBlockBack.validator = cBlock.validator
          /\ cBlockBack.timestamp = cBlock.timestamp
          /\ cBlockBack.signature = cBlock.signature

----------------------------------------------------------------------------
(* Properties of the initial distribution *)

\* The MINT objects of the initial supply queued for an address.
MintsQueuedFor(address) ==
    Len(SelectSeq(pendingTransactions,
                  LAMBDA tx : tx.type = "MINT" /\ tx.to = address
                              /\ tx.amount = InitialSupply))

----------------------------------------------------------------------------
(* Properties of block production *)

\* The local blocks saved so far; 'blockCreated' is emitted once for each.
BlocksCreated == SelectSeq(applyLog, LAMBDA e : e.origin = "local" /\ e.ok)

\* C28: createBlock called with an address that is not a validator at that
\* moment is a no-op: no block is built or persisted, the pool, the
\* balances, the validator map and the current height are unchanged, and
\* no 'blockCreated' is emitted.
C28_NonValidatorNoOp ==
    [][(cbCall' # cbCall /\ cbPc = "idle"
            /\ ~MapHas(validators, cbCall'.address)) =>
          /\ cbCall'.outcome = "notValidator"
          /\ cbPc' = "idle"
          /\ cbBlock' = NoBlock
          /\ UNCHANGED <<dbByHeight, latestBlock, balances, validators, txStore,
                         currentHeight, pendingTransactions, applyLog>>
          /\ BlocksCreated' = BlocksCreated]_vars

\* A call for an address that is no validator has returned early while
\* transactions were pending.
C28_Witness ==
    /\ cbCall = [address |-> "Y", outcome |-> "notValidator"]
    /\ pendingTransactions # << >>
    /\ cbPc = "idle"

\* C29: every block createBlock builds has the height of the latest block
\* plus one, the hash of the latest block as previousHash, and at least one
\* transaction, each valid on the state it was selected on; a call that
\* finds no valid pending transaction builds and persists nothing and
\* leaves height, balances and pool as they were.
C29_BuiltOnLatestFromValid ==
    [][/\ (cbPc = "idle" /\ cbPc' = "saving") =>
            /\ cbBlock'.height = latestBlock.height + 1
            /\ cbBlock'.previousHash = latestBlock.hash
            /\ Len(cbBlock'.transactions) >= 1
            /\ \A i \in 1..Len(cbBlock'.transactions) :
                  IsTransactionValid(cbBlock'.transactions[i], balances, validators,
                                     validatorMinDeposit)
       /\ (cbCall' # cbCall /\ cbPc = "idle"
              /\ ValidTransactions(pendingTransactions, balances, validators,
                                   validatorMinDeposit) = << >>) =>
            /\ cbPc' = "idle"
            /\ cbBlock' = NoBlock
            /\ UNCHANGED <<dbByHeight, latestBlock, balances, currentHeight,
                           pendingTransactions, applyLog>>]_vars

\* A block has been built from a pool that also holds a transaction that
\* was not valid.
C29_Witness ==
    /\ cbPc = "saving"
    /\ Len(cbBlock.transactions) = 1
    /\ Len(pendingTransactions) = 2
    /\ cbBlock.height = 1

\* The entries of the pool at the positions outside `included`, in order.
Remaining(pool, included) ==
    [k \in 1..(Len(pool) - Cardinality(included \cap (1..Len(pool)))) |->
        pool[CHOOSE i \in (1..Len(pool)) \ included :
                Cardinality(((1..i) \ included)) = k]]

----------------------------------------------------------------------------
(* C31: block production is never concurrent with itself *)

\* C31: at no time are two createBlock passes of the block timer in flight;
\* a tick that fires while a pass is suspended starts no second pass.
C31_OnePassAtATime ==
    \A p, q \in Passes : p # q => ~(tpPc[p] = "saving" /\ tpPc[q] = "saving")

----------------------------------------------------------------------------
(* C32: isTransactionValid against the per-type predicate *)

\* The per-type predicate of the claim.
ReferenceValid(tx, bal, vals, minDeposit) ==
    CASE tx.type \in {"MINT", "REWARD", "WHITELIST"} -> TRUE
      [] tx.type = "TRANSFER" -> bal[tx.from] >= tx.amount + tx.fee
      [] tx.type = "VALIDATOR_REGISTER" ->
            bal[tx.from] >= tx.amount + tx.fee /\ Hundredths(tx.amount) >= minDeposit
      [] tx.type = "VALIDATOR_WITHDRAW" -> MapHas(vals, tx.from)
      [] tx.type = "MESSAGE" -> tx.fee = 0 \/ bal[tx.from] >= tx.fee
      [] OTHER -> FALSE

\* C32: for every transaction and every ledger state, isTransactionValid
\* returns what the per-type predicate of the claim gives.
C32_IsValidMatchesReference ==
    ivOut # "none" =>
        ((ivOut = "true") = ReferenceValid(ivTx, balances, validators, validatorMinDeposit))

----------------------------------------------------------------------------
(* C33: stake-weighted selection *)

\* The draw of a call, times Grid: snRandom/Grid of the total stake.
\* The first validator in iteration order whose cumulative stake strictly
\* exceeds the draw, and no validator for an empty registry.
ReferenceSelect(entries, k) ==
    LET totalStake == CumulativeStake(entries, Len(entries))
        above == {i \in 1..Len(entries) :
                     CumulativeStake(entries, i) * Grid > k * totalStake}
    IN  IF entries = << >> THEN NoAddress
        ELSE entries[CHOOSE i \in above : \A j \in above : i <= j][1]

\* C33: for every stake map and every draw in [0, totalStake),
\* selectNextValidator returns the first validator whose cumulative stake
\* strictly exceeds the draw, and no validator exactly when the map is empty.
C33_SelectsFirstAboveDraw ==
    snOut # "none" => snOut = ReferenceSelect(snEntries, snRandom)

----------------------------------------------------------------------------
(* C34: the effect of an applied TRANSFER *)

\* What the balance of address a gains when a block that holds the one
\* transaction tx is applied: the amount if a receives, less amount + fee
\* if a sends, and for the producer of a locally built block its reward.
TransferGain(a, entry) ==
    LET tx == entry.block.transactions[1]
    IN  (IF a = tx.to THEN tx.amount ELSE 0)
        - (IF a = tx.from THEN tx.amount + tx.fee ELSE 0)
        + (IF entry.origin = "local" /\ a = entry.block.validator
           THEN TotalReward(entry.block.transactions) ELSE 0)

----------------------------------------------------------------------------
(* C35: Active -> Unregistered on VALIDATOR_WITHDRAW, and back only on a   *)
(* VALIDATOR_REGISTER of at least the minimum                              *)

\* The applied blocks that hold one transaction, a VALIDATOR_WITHDRAW of an
\* address that was a validator.
WithdrawalsApplied ==
    {k \in 1..Len(applyLog) :
        /\ applyLog[k].ok
        /\ Len(applyLog[k].block.transactions) = 1
        /\ applyLog[k].block.transactions[1].type = "VALIDATOR_WITHDRAW"
        /\ MapHas(applyLog[k].valsBefore, applyLog[k].block.transactions[1].from)}

\* The reward the producer of a locally built block takes with the block.
ProducerGain(a, entry) ==
    IF entry.origin = "local" /\ a = entry.block.validator
    THEN TotalReward(entry.block.transactions) ELSE 0

----------------------------------------------------------------------------
(* C36: the monthly reward pass *)

\* The REWARD transactions among txs that go to address a with the monthly
\* reward of stake.
MonthlyRewardsFor(txs, a, stake) ==
    {i \in 1..Len(txs) :
        /\ txs[i].type = "REWARD"
        /\ txs[i].to = a
        /\ txs[i].amount * 100 * MonthsPerYear = stake * ApyPercent}

\* What the pass appended to the pool.
Appended == SubSeq(pendingTransactions', Len(pendingTransactions) + 1,
                   Len(pendingTransactions'))

\* A pass leaves balances, stakes and the height as they are, and balances
\* change only with the application of a block.
MonthlyFrame ==
    /\ mrCall' # mrCall => UNCHANGED <<ledgerVars, vmValidators>>
    /\ balances' # balances => applyLog' # applyLog

----------------------------------------------------------------------------
(* C37: a gossip block above the next height, and one at or below the head *)

\* A block message was handled in this step.
Handled == gLast'.n # gLast.n

\* The block of the message was above the next height; at or below the head.
AboveNext == gLast'.height > gLast'.latestHeight + 1
AtOrBelowHead == gLast'.height <= gLast'.latestHeight

\* Nothing of the ledger, the pool or the handler's block changed.
NotApplied ==
    UNCHANGED <<ledgerVars, pendingTransactions, vmValidators, applyLog, gPc, gBlock>>

\* A sync was started: its height request is out.  (One sync is modelled at
\* a time; the step is looked at when none is running.)
SyncFree == syPc \in {"idle", "done", "failed"}
SyncStarted == syPc' = "reqHeight" /\ Len(syncLog') = 1

----------------------------------------------------------------------------
(* C38: a transaction is applied at most once *)

\* The hashes of a list of transactions, in order.
HashesOf(txs) == [i \in 1..Len(txs) |-> txs[i].hash]

NoHashTwice(txs) ==
    \A i, j \in 1..Len(txs) : i # j => txs[i].hash # txs[j].hash

\* The blocks saveBlock applied in full, in order.
AppliedBlocks ==
    LET entries == SelectSeq(applyLog, LAMBDA entry : entry.ok)
    IN  [i \in 1..Len(entries) |-> entries[i].block]

\* C38: no transaction hash occurs twice in the pending pool, twice in one
\* applied block, or in two applied blocks.
C38_AppliedAtMostOnce ==
    /\ NoHashTwice(pendingTransactions)
    /\ \A i \in 1..Len(AppliedBlocks) : NoHashTwice(AppliedBlocks[i].transactions)
    /\ \A i, j \in 1..Len(AppliedBlocks) :
          i # j => \A k \in 1..Len(AppliedBlocks[i].transactions) :
                     \A l \in 1..Len(AppliedBlocks[j].transactions) :
                        AppliedBlocks[i].transactions[k].hash
                           # AppliedBlocks[j].transactions[l].hash

----------------------------------------------------------------------------
(* C39: the current height moves one up at a time *)

----------------------------------------------------------------------------
(* C40: a failed application leaves nothing half-updated *)

\* saveBlock ran in this step and threw.
ApplicationFailed ==
    /\ Len(applyLog') = Len(applyLog) + 1
    /\ ~applyLog'[Len(applyLog')].ok

====
